---------------------------- MODULE Spec2Model ----------------------------
(***************************************************************************)
(* Model of the title-conflict detection engine of iterai_backend:         *)
(*   src/title_engine.py  normalisation, TitleIndex, lexical rules,        *)
(*                        guideline rules                                  *)
(*   src/main.py          startup index build, verification pipeline with  *)
(*                        its result cache, submit_application              *)
(* Titles are TLA+ strings; the string functions work on their sequence of *)
(* one-character strings.  Scores are exact rationals [n, d] (value n/d).  *)
(* SpecIndex is a TitleIndex called directly; Spec is the service, with    *)
(* its handlers running as threads that share the process state and        *)
(* interleave between their steps, which is what index_lock provides for.  *)
(***************************************************************************)
EXTENDS Integers, Sequences, FiniteSets, TLC

(***************************************************************************)
(* Characters and strings                                                  *)
(***************************************************************************)
Chars(s) == [i \in 1..Len(s) |-> SubSeq(s, i, i)]

RECURSIVE Str(_)
Str(cs) == IF cs = <<>> THEN "" ELSE Head(cs) \o Str(Tail(cs))

LowerLetters == Chars("abcdefghijklmnopqrstuvwxyz")
UpperLetters == Chars("ABCDEFGHIJKLMNOPQRSTUVWXYZ")
DigitChars   == Chars("0123456789")

\* The characters of the model in code-point order (tab, then printable
\* ASCII in use, then one non-ASCII letter).
CodePointOrder ==
    <<"\t">> \o Chars(" !-") \o DigitChars \o <<"@">> \o UpperLetters
             \o LowerLetters \o <<"é">>

IndexOf(seq, c) == CHOOSE i \in 1..Len(seq) : seq[i] = c

Range(seq) == {seq[i] : i \in 1..Len(seq)}

LowerSet == Range(LowerLetters)
UpperSet == Range(UpperLetters)
DigitSet == Range(DigitChars)
Whitespace == {" ", "\t"}

CodePoint == [c \in Range(CodePointOrder) |-> IndexOf(CodePointOrder, c)]

\* Python's order on str: lexicographic by code point, a prefix first.
RECURSIVE SeqLess(_, _)
SeqLess(a, b) ==
    IF b = <<>> THEN FALSE
    ELSE IF a = <<>> THEN TRUE
    ELSE IF Head(a) = Head(b) THEN SeqLess(Tail(a), Tail(b))
    ELSE CodePoint[Head(a)] < CodePoint[Head(b)]

StrLess(s, t) == SeqLess(Chars(s), Chars(t))

\* min(S) under Python's str order: sorted(S)[0].
StrMin(S) == CHOOSE s \in S : \A t \in S : t = s \/ StrLess(s, t)

\* sorted(list of str), by insertion.
RECURSIVE InsertSorted(_, _)
InsertSorted(w, ws) ==
    IF ws = <<>> THEN <<w>>
    ELSE IF StrLess(Head(ws), w) THEN <<Head(ws)>> \o InsertSorted(w, Tail(ws))
    ELSE <<w>> \o ws

RECURSIVE Sorted(_)
Sorted(ws) == IF ws = <<>> THEN <<>> ELSE InsertSorted(Head(ws), Sorted(Tail(ws)))

\* " ".join(words)
RECURSIVE Join(_)
Join(ws) ==
    IF ws = <<>> THEN ""
    ELSE IF Len(ws) = 1 THEN ws[1]
    ELSE ws[1] \o " " \o Join(Tail(ws))

\* str.split(): the maximal runs of non-whitespace characters.
RECURSIVE SplitChars(_, _)
SplitChars(cs, cur) ==
    IF cs = <<>> THEN (IF cur = "" THEN <<>> ELSE <<cur>>)
    ELSE IF Head(cs) \in Whitespace
         THEN (IF cur = "" THEN <<>> ELSE <<cur>>) \o SplitChars(Tail(cs), "")
         ELSE SplitChars(Tail(cs), cur \o Head(cs))

Split(s) == SplitChars(Chars(s), "")

\* str.strip()
RECURSIVE LStrip(_)
LStrip(cs) ==
    IF cs # <<>> /\ Head(cs) \in Whitespace THEN LStrip(Tail(cs)) ELSE cs

RECURSIVE RStrip(_)
RStrip(cs) ==
    IF cs # <<>> /\ cs[Len(cs)] \in Whitespace
    THEN RStrip(SubSeq(cs, 1, Len(cs) - 1)) ELSE cs

Strip(s) == Str(RStrip(LStrip(Chars(s))))

(***************************************************************************)
(* Normalisation: _sanitize_cached / sanitize_input                        *)
(***************************************************************************)
\* unidecode: ASCII is kept, a non-ASCII character becomes its romanisation.
UnidecodeChar(c) == IF c = "é" THEN <<"e">> ELSE <<c>>

RECURSIVE Unidecode(_)
Unidecode(cs) ==
    IF cs = <<>> THEN <<>> ELSE UnidecodeChar(Head(cs)) \o Unidecode(Tail(cs))

LowerChar(c) == IF c \in UpperSet THEN LowerLetters[IndexOf(UpperLetters, c)] ELSE c

UpperChar(c) == IF c \in LowerSet THEN UpperLetters[IndexOf(LowerLetters, c)] ELSE c

Lower(cs) == [i \in 1..Len(cs) |-> LowerChar(cs[i])]

\* LEET_MAP = str.maketrans("0134578@!", "oieastbba")
LeetFrom == Chars("0134578@!")
LeetTo   == Chars("oieastbba")

LeetChar(c) == IF c \in Range(LeetFrom) THEN LeetTo[IndexOf(LeetFrom, c)] ELSE c

Leet(cs) == [i \in 1..Len(cs) |-> LeetChar(cs[i])]

\* NON_ALNUM_RE.sub(" ", s): every character outside [a-z0-9\s] becomes " ".
NonAlnumToSpace(cs) ==
    [i \in 1..Len(cs) |->
        IF cs[i] \in LowerSet \cup DigitSet \cup Whitespace THEN cs[i] ELSE " "]

\* WHITESPACE_RE.sub(" ", s): every run of whitespace becomes one " ".
RECURSIVE CollapseWs(_)
CollapseWs(cs) ==
    IF cs = <<>> THEN <<>>
    ELSE IF Head(cs) \in Whitespace
         THEN <<" ">> \o CollapseWs(LStrip(cs))
         ELSE <<Head(cs)>> \o CollapseWs(Tail(cs))

\* The two substitutions in the other order: runs of whitespace collapsed
\* before the characters outside [a-z0-9\s] are replaced.
_sanitize_cached_CollapseFirst(title) ==
    Str(RStrip(LStrip(NonAlnumToSpace(CollapseWs(Leet(Lower(Unidecode(Chars(title)))))))))

_sanitize_cached(title) ==
    Str(RStrip(LStrip(CollapseWs(NonAlnumToSpace(Leet(Lower(Unidecode(Chars(title)))))))))

sanitize_input(title) == _sanitize_cached(title)

(***************************************************************************)
(* Phonetic key: _metaphone_cached = jellyfish.metaphone                   *)
(***************************************************************************)
Vowels == {"a", "e", "i", "o", "u"}

\* One step of the Metaphone scan at position i of s: the code emitted and
\* the number of further characters consumed.
MetaRule(s, i) ==
    LET c    == s[i]
        nxt  == IF i < Len(s) THEN s[i + 1] ELSE "*"
        nn   == IF i + 1 < Len(s) THEN s[i + 2] ELSE "*"
        prev == IF i > 1 THEN s[i - 1] ELSE "*"
        R(out, skip) == [out |-> out, skip |-> skip]
    IN  CASE c \in Vowels ->
               IF i = 1 \/ prev = " " THEN R(<<UpperChar(c)>>, 0) ELSE R(<<>>, 0)
          [] c = "b" -> R(<<"B">>, 0)
          [] c = "c" ->
               IF (nxt = "i" /\ nn = "a") \/ nxt = "h" THEN R(<<"X">>, 1)
               ELSE IF nxt \in {"i", "e", "y"} THEN R(<<"S">>, 1)
               ELSE R(<<"K">>, 0)
          [] c = "d" ->
               IF nxt = "g" /\ nn \in {"i", "e", "y"} THEN R(<<"J">>, 2)
               ELSE R(<<"T">>, 0)
          [] c \in {"f", "j", "l", "m", "n", "r"} -> R(<<UpperChar(c)>>, 0)
          [] c = "g" ->
               IF nxt \in {"i", "e", "y"} THEN R(<<"J">>, 0)
               ELSE IF nxt = "h" /\ nn # "*" /\ nn \notin Vowels THEN R(<<>>, 1)
               ELSE IF nxt = "n" /\ nn = "*" THEN R(<<>>, 1)
               ELSE R(<<"K">>, 0)
          [] c = "h" ->
               IF i = 1 \/ nxt \in Vowels \/ prev \notin Vowels
               THEN R(<<"H">>, 0) ELSE R(<<>>, 0)
          [] c = "k" -> IF i = 1 \/ prev # "c" THEN R(<<"K">>, 0) ELSE R(<<>>, 0)
          [] c = "p" -> IF nxt = "h" THEN R(<<"F">>, 1) ELSE R(<<"P">>, 0)
          [] c = "q" -> R(<<"K">>, 0)
          [] c = "s" ->
               IF nxt = "h" THEN R(<<"X">>, 1)
               ELSE IF nxt = "i" /\ nn \in {"o", "a"} THEN R(<<"X">>, 2)
               ELSE R(<<"S">>, 0)
          [] c = "t" ->
               IF nxt = "i" /\ nn \in {"o", "a"} THEN R(<<"X">>, 0)
               ELSE IF nxt = "h" THEN R(<<"0">>, 1)
               ELSE IF nxt # "c" \/ nn # "h" THEN R(<<"T">>, 0)
               ELSE R(<<>>, 0)
          [] c = "v" -> R(<<"F">>, 0)
          [] c = "w" ->
               IF i = 1 /\ nxt = "h"
               THEN (IF nn \in Vowels \/ nn = "*" THEN R(<<"W">>, 1) ELSE R(<<>>, 1))
               ELSE IF nxt \in Vowels \/ nxt = "*" THEN R(<<"W">>, 0)
               ELSE R(<<>>, 0)
          [] c = "x" ->
               IF i = 1
               THEN (IF nxt = "h" \/ (nxt = "i" /\ nn \in {"o", "a"})
                     THEN R(<<"X">>, 0) ELSE R(<<"S">>, 0))
               ELSE R(<<"K", "S">>, 0)
          [] c = "y" -> IF nxt \in Vowels THEN R(<<"Y">>, 0) ELSE R(<<>>, 0)
          [] c = "z" -> R(<<"S">>, 0)
          [] OTHER -> R(<<>>, 0)

RECURSIVE MetaScan(_, _, _)
MetaScan(s, i, res) ==
    IF i > Len(s) THEN res
    ELSE IF i < Len(s) /\ s[i] = s[i + 1] /\ s[i] # "c"
         THEN MetaScan(s, i + 1, res)            \* the first of a double is skipped
    ELSE IF s[i] = " "
         THEN MetaScan(s, i + 1,
                       IF res # <<>> /\ res[Len(res)] # " "
                       THEN Append(res, " ") ELSE res)
    ELSE LET r == MetaRule(s, i)
         IN  MetaScan(s, i + 1 + r.skip, res \o r.out)

HasSkippedPrefix(s) ==
    Len(s) >= 2 /\ SubSeq(s, 1, 2) \in
        {<<"k", "n">>, <<"g", "n">>, <<"p", "n">>, <<"w", "r">>, <<"a", "e">>}

_metaphone_cached(text) ==
    LET s == Lower(Chars(text))
    IN  Str(MetaScan(IF HasSkippedPrefix(s) THEN Tail(s) ELSE s, 1, <<>>))

(***************************************************************************)
(* Trigrams, acronym                                                       *)
(***************************************************************************)
\* str.replace(" ", "")
RemoveSpaces(cs) == SelectSeq(cs, LAMBDA c : c # " ")

_compact_ngrams_cached(compact, n) ==
    LET cs == Chars(compact)
    IN  IF compact = "" THEN {}
        ELSE IF Len(cs) <= n THEN {compact}
        ELSE {Str(SubSeq(cs, i, i + n - 1)) : i \in 1..(Len(cs) - n + 1)}

char_ngrams(text) == _compact_ngrams_cached(Str(RemoveSpaces(Chars(text))), 3)

RECURSIVE make_acronym(_)
make_acronym(words) ==
    IF words = <<>> THEN ""
    ELSE (IF Head(words) = "" THEN "" ELSE SubSeq(Head(words), 1, 1))
         \o make_acronym(Tail(words))

(***************************************************************************)
(* Scores: exact rationals; rapidfuzz fuzz.ratio                           *)
(***************************************************************************)
RECURSIVE GCD(_, _)
GCD(a, b) == IF b = 0 THEN a ELSE GCD(b, a % b)

Rat(n, d) == LET g == GCD(n, d) IN [n |-> n \div g, d |-> d \div g]
Num(k) == [n |-> k, d |-> 1]

RLeq(a, b)  == a.n * b.d <= b.n * a.d
RLess(a, b) == a.n * b.d < b.n * a.d
RMax(a, b)  == IF RLess(a, b) THEN b ELSE a
RSub(a, b)  == Rat(a.n * b.d - b.n * a.d, a.d * b.d)

Max(a, b) == IF a < b THEN b ELSE a

\* One row of the longest-common-subsequence table: acc holds cells 0..j-1.
RECURSIVE LcsRow(_, _, _, _)
LcsRow(ch, b, prev, acc) ==
    LET j == Len(acc)
    IN  IF j > Len(b) THEN acc
        ELSE LcsRow(ch, b, prev,
                    Append(acc, IF b[j] = ch THEN prev[j] + 1
                                ELSE Max(prev[j + 1], acc[j])))

RECURSIVE LcsRows(_, _, _, _)
LcsRows(a, b, i, prev) ==
    IF i > Len(a) THEN prev[Len(b) + 1]
    ELSE LcsRows(a, b, i + 1, LcsRow(a[i], b, prev, <<0>>))

LcsLength(s, t) ==
    LET a == Chars(s)
        b == Chars(t)
    IN  LcsRows(a, b, 1, [j \in 1..(Len(b) + 1) |-> 0])

fuzz_ratio_OverLonger(s, t) ==
    IF Len(s) + Len(t) = 0 THEN Num(100)
    ELSE Rat(200 * LcsLength(s, t), Max(Len(s), Len(t)))

\* fuzz.ratio: 100 * (1 - indel_distance / (len1 + len2)) = 200 * lcs / (len1 + len2)
fuzz_ratio(s, t) ==
    IF Len(s) + Len(t) = 0 THEN Num(100)
    ELSE Rat(200 * LcsLength(s, t), Len(s) + Len(t))

\* round(x * scale) to an integer, ties to even (Python's round and format).
RoundScaled(r, scale) ==
    LET q   == (r.n * scale) \div r.d
        rem == (r.n * scale) % r.d
    IN  IF 2 * rem < r.d THEN q
        ELSE IF 2 * rem > r.d THEN q + 1
        ELSE IF q % 2 = 0 THEN q ELSE q + 1

\* round(x, 2)
Round2(r) == Rat(RoundScaled(r, 100), 100)

(***************************************************************************)
(* Program constants                                                       *)
(***************************************************************************)
ADVANCED_PERIODICITY ==
    {"daily", "weekly", "monthly", "fortnightly", "annual", "dainik",
     "saptahik", "masik", "varshik", "pratidin", "rozana"}
DISALLOWED_WORDS == {"police", "crime", "corruption", "cbi", "cid", "army"}
PREFIXES_SUFFIXES == {"the", "india", "samachar", "news"}

max_candidates == 700

(***************************************************************************)
(* Bounds and input pools                                                  *)
(***************************************************************************)
\* Raw titles added to the index since the last clear, at most.
MaxTitles == 3
\* Length of a batch passed to extend, at most.
MaxBatch == 2

\* Raw titles offered to add_title, extend and detect_lexical_conflicts.
RawPool ==
    {"Dan", "d4n", "Tan", "dan tal", "Tal-Dan", "tal", "-", "2", "DT",
     "Daily Dan", "dlan", "daily dan daily", "India"}

(***************************************************************************)
(* State                                                                   *)
(***************************************************************************)
VARIABLES
    title_index,   \* the TitleIndex: a record of its eight maps
    added,         \* history: raw titles passed to add_title since the last clear
    last,          \* the last direct TitleIndex call and what it returned
    store,         \* the existing_titles table: the Title of each row, in order
    life,          \* the lifespan handler: its position and loop variables
    index_lock,    \* the RLock guarding title_index: its owner and depth
    cache,         \* lru_cache of cached_verification_logic: key -> verdict
    req,           \* per handler slot: the request being served
    pc,            \* per handler slot: the position in the handler
    loc,           \* per handler slot: the handler's local variables
    resp,          \* per handler slot: the response, once there is one
    started,       \* number of requests accepted so far
    committed,     \* history: normalized titles whose submission returned success
    atStart,       \* history, per slot: what held when the request arrived
    effects,       \* history, per slot: the effects of the request, in order
    pending        \* history: writers of the index since the last cache clear

ivars == <<title_index, added, last>>
svars == <<store, life, index_lock, cache, req, pc, loc, resp, started,
           committed, atStart, effects, pending>>
vars  == <<title_index, added, last, store, life, index_lock, cache, req, pc,
           loc, resp, started, committed, atStart, effects, pending>>

(***************************************************************************)
(* TitleIndex                                                              *)
(***************************************************************************)
EmptyMap == [k \in {} |-> {}]

MapGet(m, k) == IF k \in DOMAIN m THEN m[k] ELSE {}

\* m[k].add(v) for every k in keys, on a defaultdict(set)
MapAddAll(m, keys, v) ==
    [k \in DOMAIN m \cup keys |->
        MapGet(m, k) \cup (IF k \in keys THEN {v} ELSE {})]

MapAdd(m, k, v) == MapAddAll(m, {k}, v)

TitleIndex ==
    [existing_titles   |-> {},
     canonical_titles  |-> EmptyMap,
     phonetic_map      |-> EmptyMap,
     sorted_titles_map |-> EmptyMap,
     acronym_map       |-> EmptyMap,
     token_index       |-> EmptyMap,
     trigram_index     |-> EmptyMap,
     first_char_index  |-> EmptyMap]

\* Mutant of clear: canonical_titles is not cleared.
clear_KeepsCanonical(idx) ==
    [TitleIndex EXCEPT !.canonical_titles = idx.canonical_titles]

clear(idx) == TitleIndex

\* Mutant of AddExisting: the set is replaced instead of extended.
AddExisting_Replaces(existing, normalized) == {normalized}

\* self.existing_titles.add(normalized)
AddExisting(existing, normalized) == existing \cup {normalized}

\* Mutant of IsMultiWord: off by one.
IsMultiWord_MoreThanTwo(words) == Len(words) > 2

\* len(words) > 1
IsMultiWord(words) == Len(words) > 1

add_title(idx, raw_title) ==
    LET normalized == sanitize_input(raw_title)
        words      == Split(normalized)
        metaphone  == _metaphone_cached(normalized)
        acronym    == make_acronym(words)
    IN  IF normalized = "" THEN idx
        ELSE [existing_titles   |-> AddExisting(idx.existing_titles, normalized),
              canonical_titles  |->
                  MapAdd(idx.canonical_titles, normalized, Strip(raw_title)),
              phonetic_map      |->
                  IF metaphone # ""
                  THEN MapAdd(idx.phonetic_map, metaphone, normalized)
                  ELSE idx.phonetic_map,
              sorted_titles_map |->
                  IF IsMultiWord(words)
                  THEN MapAdd(idx.sorted_titles_map, Join(Sorted(words)), normalized)
                  ELSE idx.sorted_titles_map,
              acronym_map       |->
                  IF IsMultiWord(words) /\ acronym # ""
                  THEN MapAdd(idx.acronym_map, acronym, normalized)
                  ELSE idx.acronym_map,
              token_index       |-> MapAddAll(idx.token_index, Range(words), normalized),
              trigram_index     |->
                  MapAddAll(idx.trigram_index, char_ngrams(normalized), normalized),
              first_char_index  |->
                  MapAdd(idx.first_char_index, SubSeq(normalized, 1, 1), normalized)]

RECURSIVE extend(_, _)
extend(idx, titles) ==
    IF titles = <<>> THEN idx
    ELSE extend(add_title(idx, Head(titles)), Tail(titles))

\* str.title() on a normalized title: a letter is upper-cased when the
\* character before it is not a letter.
TitleCase(s) ==
    LET cs == Chars(s)
    IN  Str([i \in 1..Len(cs) |->
                IF i = 1 \/ cs[i - 1] \notin LowerSet \cup UpperSet
                THEN UpperChar(cs[i]) ELSE LowerChar(cs[i])])

display_title(idx, normalized_title) ==
    LET candidates == MapGet(idx.canonical_titles, normalized_title)
    IN  IF candidates = {} THEN TitleCase(normalized_title)
        ELSE StrMin(candidates)

Abs(x) == IF x < 0 THEN -x ELSE x

\* The votes of _candidate_titles: 3 per shared token, 1 per shared trigram,
\* 1 for the same first character within a length difference of 8.
CandidateVotes(idx, clean_title) ==
    LET tokens == Range(Split(clean_title))
        grams  == char_ngrams(clean_title)
        firsts == IF clean_title = "" THEN {}
                  ELSE {c \in MapGet(idx.first_char_index, SubSeq(clean_title, 1, 1)) :
                            Abs(Len(c) - Len(clean_title)) <= 8}
        voted  == UNION {MapGet(idx.token_index, t) : t \in tokens}
                  \cup UNION {MapGet(idx.trigram_index, g) : g \in grams}
                  \cup firsts
    IN  [c \in voted |->
            3 * Cardinality({t \in tokens : c \in MapGet(idx.token_index, t)})
            + Cardinality({g \in grams : c \in MapGet(idx.trigram_index, g)})
            + (IF c \in firsts THEN 1 ELSE 0)]

\* The sets _candidate_titles can return: the max_candidates most voted
\* titles; among equal votes the Counter's insertion order decides, which
\* follows the iteration order of the index's sets.
_candidate_titles(idx, clean_title) ==
    LET votes == CandidateVotes(idx, clean_title)
        voted == DOMAIN votes
    IN  IF Cardinality(voted) <= max_candidates THEN {voted}
        ELSE {S \in SUBSET voted :
                 /\ Cardinality(S) = max_candidates
                 /\ \A a \in S, b \in voted \ S : votes[a] >= votes[b]}

\* segment(start) of _detect_combination: the groupings of words[start..]
\* into corpus titles, in the order the code builds them.
RECURSIVE Segment(_, _, _, _, _)
Segment(idx, words, clean_title, start, end) ==
    IF end > Len(words) THEN <<>>
    ELSE LET phrase == Join(SubSeq(words, start + 1, end))
             here   == IF phrase \notin idx.existing_titles \/ phrase = clean_title
                       THEN <<>>
                       ELSE IF end = Len(words) THEN << <<phrase>> >>
                       ELSE LET tails == Segment(idx, words, clean_title, end, end + 1)
                            IN  [k \in 1..Len(tails) |-> <<phrase>> \o tails[k]]
         IN  here \o Segment(idx, words, clean_title, start, end + 1)

\* _detect_combination looking up the words one by one only.
_detect_combination_WordByWord(idx, clean_title) ==
    LET words == Split(clean_title)
    IN  IF Len(words) >= 2 /\ Range(words) \subseteq idx.existing_titles
        THEN [k \in 1..Len(words) |-> display_title(idx, words[k])]
        ELSE <<>>

\* The display titles of the first grouping of at least two spans, or <<>>
\* for None.
_detect_combination(idx, clean_title) ==
    LET words     == Split(clean_title)
        groupings == IF Len(words) < 2 THEN <<>>
                     ELSE SelectSeq(Segment(idx, words, clean_title, 0, 1),
                                    LAMBDA g : Len(g) >= 2)
    IN  IF groupings = <<>> THEN <<>>
        ELSE [k \in 1..Len(groupings[1]) |-> display_title(idx, groupings[1][k])]

\* Mutant of _detect_periodicity_extension: the base title is not looked up
\* in the corpus.
_detect_periodicity_extension_NoLookup(idx, clean_title) ==
    LET words          == Split(clean_title)
        stripped_words == SelectSeq(words, LAMBDA w : w \notin ADVANCED_PERIODICITY)
        base_title     == Join(stripped_words)
    IN  IF Len(words) <= 1 THEN ""
        ELSE IF Len(stripped_words) = Len(words) THEN ""
        ELSE IF base_title # "" /\ base_title # clean_title
             THEN display_title(idx, base_title)
             ELSE ""

\* The display title of the base title, or "" for None.
_detect_periodicity_extension(idx, clean_title) ==
    LET words          == Split(clean_title)
        stripped_words == SelectSeq(words, LAMBDA w : w \notin ADVANCED_PERIODICITY)
        base_title     == Join(stripped_words)
    IN  IF Len(words) <= 1 THEN ""
        ELSE IF Len(stripped_words) = Len(words) THEN ""
        ELSE IF base_title # "" /\ base_title \in idx.existing_titles
                /\ base_title # clean_title
             THEN display_title(idx, base_title)
             ELSE ""

\* str.isalpha() on the characters of the model
IsAlpha(s) == s # "" /\ Range(Chars(s)) \subseteq LowerSet \cup UpperSet \cup {"é"}

\* A reason sentence: its fixed wording (rule), the display titles it quotes
\* and the percentage it prints with one decimal (in tenths; -1 for none).
Reason(rule, titles, pct) == [rule |-> rule, titles |-> titles, pct |-> pct]

Result(reasons, score) == [reasons |-> reasons, score |-> score]

\* The fuzzy stage reporting a reason from a best ratio of 90 on only.
FuzzyResults_ReasonFrom90(idx, clean_title, candidates) ==
    LET scored     == {<<c, fuzz_ratio(clean_title, c)>> :
                          c \in {x \in candidates : x # clean_title}}
        positive   == {p \in scored : RLess(Num(0), p[2])}
        bests      == {p \in positive : \A o \in positive : RLeq(o[2], p[2])}
        best_score == IF bests = {} THEN Num(0) ELSE (CHOOSE p \in bests : TRUE)[2]
    IN  IF bests # {} /\ RLeq(Num(90), best_score)
        THEN {Result(<<Reason("Spelling/transliteration variation",
                              <<display_title(idx, p[1])>>,
                              RoundScaled(best_score, 10))>>, best_score) : p \in bests}
        ELSE {Result(<<>>, best_score)}

\* The fuzzy stage (rule 8) over one candidate set: the loop keeps the first
\* candidate of the highest ratio above 0.0 in iteration order, so any
\* candidate of the best ratio can be best_match.
FuzzyResults(idx, clean_title, candidates) ==
    LET scored     == {<<c, fuzz_ratio(clean_title, c)>> :
                          c \in {x \in candidates : x # clean_title}}
        positive   == {p \in scored : RLess(Num(0), p[2])}
        bests      == {p \in positive : \A o \in positive : RLeq(o[2], p[2])}
        best_score == IF bests = {} THEN Num(0) ELSE (CHOOSE p \in bests : TRUE)[2]
    IN  IF bests # {} /\ RLeq(Num(80), best_score)
        THEN {Result(<<Reason("Spelling/transliteration variation",
                              <<display_title(idx, p[1])>>,
                              RoundScaled(best_score, 10))>>, best_score) : p \in bests}
        ELSE {Result(<<>>, best_score)}

\* detect_lexical_conflicts: the results it can return (one per iteration
\* order of the index's sets).
detect_lexical_conflicts(idx, raw_title, precleaned) ==
    LET clean_title == IF precleaned THEN raw_title ELSE sanitize_input(raw_title)
        words       == Split(clean_title)
        sorted_matches  == MapGet(idx.sorted_titles_map, Join(Sorted(words)))
        acronym_matches == MapGet(idx.acronym_map, clean_title)
        metaphone   == _metaphone_cached(clean_title)
        phonetic_matches ==
            IF metaphone = "" THEN {}
            ELSE {m \in MapGet(idx.phonetic_map, metaphone) :
                     m # clean_title /\ RLeq(Num(60), fuzz_ratio(clean_title, m))}
        periodic_base == _detect_periodicity_extension(idx, clean_title)
        combination   == _detect_combination(idx, clean_title)
    IN  IF clean_title = ""
        THEN {Result(<<Reason("Title cannot be empty after normalization", <<>>, -1)>>,
                     Num(100))}
        ELSE IF clean_title \in idx.existing_titles
        THEN {Result(<<Reason("Exact match", <<display_title(idx, clean_title)>>, -1)>>,
                     Num(100))}
        ELSE IF Len(words) > 1 /\ sorted_matches # {}
        THEN {Result(<<Reason("Word-order variation", <<display_title(idx, m)>>, -1)>>,
                     Num(99)) : m \in sorted_matches}
        ELSE IF Len(clean_title) <= 8 /\ IsAlpha(clean_title) /\ acronym_matches # {}
        THEN {Result(<<Reason("Acronym collision", <<display_title(idx, m)>>, -1)>>,
                     Num(98)) : m \in acronym_matches}
        ELSE IF phonetic_matches # {}
        THEN {Result(<<Reason("Phonetic conflict", <<display_title(idx, m)>>,
                              RoundScaled(fuzz_ratio(clean_title, m), 10))>>,
                     RMax(Num(92), fuzz_ratio(clean_title, m))) : m \in phonetic_matches}
        ELSE IF periodic_base # ""
        THEN {Result(<<Reason("Periodicity modifier", <<periodic_base>>, -1)>>, Num(96))}
        ELSE IF combination # <<>>
        THEN {Result(<<Reason("combine existing titles", combination, -1)>>, Num(94))}
        ELSE UNION {FuzzyResults(idx, clean_title, candidates) :
                       candidates \in _candidate_titles(idx, clean_title)}

(***************************************************************************)
(* Guideline rules: enforce_guidelines                                     *)
(***************************************************************************)
\* sorted(set of strings)
RECURSIVE SortSet(_)
SortSet(S) ==
    IF S = {} THEN <<>>
    ELSE LET m == StrMin(S) IN <<m>> \o SortSet(S \ {m})

\* str.upper()
Upper(s) == LET cs == Chars(s) IN Str([i \in 1..Len(cs) |-> UpperChar(cs[i])])

NotPeriodicity(word) == word \notin ADVANCED_PERIODICITY

\* A guideline reason: the rule's wording and the words or title it names
\* (pct is the percentage a reason shows, in tenths; -1 when it shows none).
GuidelineReason(rule, names) == Reason(rule, names, -1)

\* enforce_guidelines returning after the first reason it finds.
enforce_guidelines_FirstOnly(title, idx, precleaned) ==
    LET clean_title == IF precleaned THEN title ELSE sanitize_input(title)
        words       == Split(clean_title)
        hits == {m \in idx.existing_titles :
                    \/ m = Join(SelectSeq(words, NotPeriodicity)) /\ m # clean_title
                    \/ words[1] \in PREFIXES_SUFFIXES /\ m = Join(Tail(words))}
    IN  IF words = <<>> THEN <<GuidelineReason("Title cannot be empty", <<>>)>>
        ELSE IF Range(words) \cap DISALLOWED_WORDS # {}
        THEN <<GuidelineReason("Contains disallowed words",
                   [i \in 1..Len(SortSet(Range(words) \cap DISALLOWED_WORDS)) |->
                       Upper(SortSet(Range(words) \cap DISALLOWED_WORDS)[i])])>>
        ELSE IF /\ Range(words) \cap ADVANCED_PERIODICITY # {}
                /\ Join(SelectSeq(words, NotPeriodicity)) \in idx.existing_titles
        THEN <<GuidelineReason(
                   "Uses periodicity term to modify an existing title",
                   <<display_title(idx, Join(SelectSeq(words, NotPeriodicity)))>>)>>
        ELSE IF words[1] \in PREFIXES_SUFFIXES /\ Join(Tail(words)) \in idx.existing_titles
        THEN <<GuidelineReason(
                   "Disallowed prefix creates conflict with existing title",
                   <<words[1], display_title(idx, Join(Tail(words)))>>)>>
        ELSE IF /\ words[Len(words)] \in PREFIXES_SUFFIXES
                /\ Join(SubSeq(words, 1, Len(words) - 1)) \in idx.existing_titles
        THEN <<GuidelineReason(
                   "Disallowed suffix creates conflict with existing title",
                   <<words[Len(words)],
                     display_title(idx, Join(SubSeq(words, 1, Len(words) - 1)))>>)>>
        ELSE <<>>

\* enforce_guidelines(title, index, precleaned=...).  The index passed by
\* the service is a TitleIndex object, which is always truthy.
enforce_guidelines(title, idx, precleaned) ==
    LET clean_title == IF precleaned THEN title ELSE sanitize_input(title)
        words       == Split(clean_title)
        words_set   == Range(words)
        disallowed  == SortSet(words_set \cap DISALLOWED_WORDS)
        periodicity_words == words_set \cap ADVANCED_PERIODICITY
        pbase       == Join(SelectSeq(words, NotPeriodicity))
        prefix_base == Join(Tail(words))
        suffix_base == Join(SubSeq(words, 1, Len(words) - 1))
        r_disallowed ==
            IF disallowed # <<>>
            THEN <<GuidelineReason("Contains disallowed words",
                       [i \in 1..Len(disallowed) |-> Upper(disallowed[i])])>>
            ELSE <<>>
        r_periodicity ==
            IF /\ periodicity_words # {}
               /\ pbase # ""
               /\ pbase \in idx.existing_titles
               /\ pbase # clean_title
            THEN <<GuidelineReason(
                       "Uses periodicity term to modify an existing title",
                       <<display_title(idx, pbase)>>)>>
            ELSE <<>>
        r_prefix ==
            IF /\ words[1] \in PREFIXES_SUFFIXES
               /\ prefix_base # ""
               /\ prefix_base \in idx.existing_titles
            THEN <<GuidelineReason(
                       "Disallowed prefix creates conflict with existing title",
                       <<words[1], display_title(idx, prefix_base)>>)>>
            ELSE <<>>
        r_suffix ==
            IF /\ words[Len(words)] \in PREFIXES_SUFFIXES
               /\ suffix_base # ""
               /\ suffix_base \in idx.existing_titles
            THEN <<GuidelineReason(
                       "Disallowed suffix creates conflict with existing title",
                       <<words[Len(words)], display_title(idx, suffix_base)>>)>>
            ELSE <<>>
    IN  IF words = <<>> THEN <<GuidelineReason("Title cannot be empty", <<>>)>>
        ELSE r_disallowed \o r_periodicity \o r_prefix \o r_suffix

(***************************************************************************)
(* Verification pipeline: the stages of cached_verification_logic          *)
(***************************************************************************)
LEXICAL_REJECT_THRESHOLD == 82
ENSEMBLE_REJECT_THRESHOLD == 70

\* auto_detect_language: "English" for fewer than 4 characters; otherwise
\* whatever langdetect makes of the text, mapped through INDIC_LANG_MAP.
auto_detect_language(text) ==
    IF Len(Strip(text)) < 4 THEN {"English"} ELSE {"English", "Hindi"}

VerificationResponse(status, probability, similarity, rejected, reasons, fb) ==
    [status |-> status, verification_probability |-> probability,
     similarity_percentage |-> similarity, is_rejected |-> rejected,
     rejection_reasons |-> reasons, feedback |-> fb]

\* The reason check_combinations_and_phonetics puts in front of the others.
NormalizedNote(normalized) ==
    Reason("Input was normalized before matching", <<normalized>>, -1)

\* check_combinations_and_phonetics, given what detect_lexical_conflicts
\* returned for the normalized title.
WithNormalizedNote(title, normalized, detected) ==
    [reasons |->
         IF /\ detected.reasons # <<>>
            /\ normalized # ""
            /\ normalized # Strip(Str(Lower(Chars(title))))
         THEN <<NormalizedNote(normalized)>> \o detected.reasons
         ELSE detected.reasons,
     score |-> detected.score,
     normalized |-> normalized]

check_combinations_and_phonetics(idx, title) ==
    LET normalized == sanitize_input(title)
    IN  {WithNormalizedNote(title, normalized, detected) :
            detected \in detect_lexical_conflicts(idx, normalized, TRUE)}

\* max(0.0, 100.0 - score)
Probability(score) ==
    IF RLess(Num(100), score) THEN Num(0) ELSE RSub(Num(100), score)

LexicalVerdict_Swapped(lexical_rejections, lexical_score) ==
    VerificationResponse("rejected", Round2(lexical_score),
        Round2(Probability(lexical_score)), TRUE, lexical_rejections,
        "Title is too close to an existing title by lexical/phonetic checks.")

\* The lexical rejection (lexical_score >= LEXICAL_REJECT_THRESHOLD).
LexicalVerdict(lexical_rejections, lexical_score) ==
    VerificationResponse("rejected", Round2(Probability(lexical_score)),
        Round2(lexical_score), TRUE, lexical_rejections,
        "Title is too close to an existing title by lexical/phonetic checks.")

GuidelineVerdict_Swapped(rule_rejections) ==
    VerificationResponse("rejected", Num(100), Num(0), TRUE, rule_rejections,
        "Title violates PRGI naming guidelines.")

\* The guideline rejection (rule_rejections is not empty).
GuidelineVerdict(rule_rejections) ==
    VerificationResponse("rejected", Num(0), Num(100), TRUE, rule_rejections,
        "Title violates PRGI naming guidelines.")

EarlyEnsembleVerdict_NotRejected(lexical_rejections, lexical_score) ==
    VerificationResponse("rejected", Round2(Probability(lexical_score)),
        Round2(lexical_score), FALSE,
        IF lexical_rejections # <<>> THEN lexical_rejections
        ELSE <<Reason("Lexical similarity is already above rejection threshold",
                      <<>>, RoundScaled(lexical_score, 10))>>,
        "Rejected by lexical scoring without semantic stage.")

\* The rejection on the lexical score alone
\* (lexical_score >= ENSEMBLE_REJECT_THRESHOLD).
EarlyEnsembleVerdict(lexical_rejections, lexical_score) ==
    VerificationResponse("rejected", Round2(Probability(lexical_score)),
        Round2(lexical_score), TRUE,
        IF lexical_rejections # <<>> THEN lexical_rejections
        ELSE <<Reason("Lexical similarity is already above rejection threshold",
                      <<>>, RoundScaled(lexical_score, 10))>>,
        "Rejected by lexical scoring without semantic stage.")

\* A row returned by the match_titles RPC; similarity is a fraction.
Match(title, similarity) == [Title |-> title, similarity |-> similarity]

RScale(k, r) == Rat(k * r.n, r.d)
RAdd(a, b) == Rat(a.n * b.d + b.n * a.d, a.d * b.d)
RDiv100(r) == Rat(r.n, r.d * 100)

\* max(0.0, min(100.0, similarity * 100.0))
Clamp100(r) ==
    IF RLess(r, Num(0)) THEN Num(0)
    ELSE IF RLess(Num(100), r) THEN Num(100) ELSE r

\* _build_ensemble_reason: max(weighted, key=weighted.get) is the first of
\* the three keys, in the dict's order, whose weighted score is the largest.
_build_ensemble_reason(matched_title, total_similarity, semantic_score, phonetic_score, fuzzy_score) ==
    LET w_semantic == RScale(40, semantic_score)
        w_phonetic == RScale(35, phonetic_score)
        w_lexical  == RScale(25, fuzzy_score)
        primary ==
            IF RLeq(w_phonetic, w_semantic) /\ RLeq(w_lexical, w_semantic)
            THEN "Similarity in meaning (semantic conflict)"
            ELSE IF RLeq(w_lexical, w_phonetic)
            THEN "Similarity in sound (phonetic conflict)"
            ELSE "Similarity in spelling (lexical conflict)"
    IN  Reason(primary, <<matched_title>>, RoundScaled(total_similarity, 10))

\* The loop over the RPC's matches: state is highest_ensemble_score,
\* ensemble_reasons and seen_matches; the loop breaks at the first match
\* whose total reaches ENSEMBLE_REJECT_THRESHOLD.
RECURSIVE EnsembleLoop(_, _, _, _, _)
EnsembleLoop(clean_title, matches, highest_ensemble_score, seen_matches, i) ==
    IF i > Len(matches)
    THEN [highest_ensemble_score |-> highest_ensemble_score,
          ensemble_reasons |-> <<>>]
    ELSE
      LET matched_title == matches[i].Title
          clean_match   == sanitize_input(matched_title)
          query_metaphone == _metaphone_cached(clean_title)
          semantic_score == Clamp100(RScale(100, matches[i].similarity))
          phonetic_score ==
              IF /\ query_metaphone # ""
                 /\ query_metaphone = _metaphone_cached(clean_match)
              THEN Num(100) ELSE Num(0)
          fuzzy_score == fuzz_ratio(clean_title, clean_match)
          total_similarity ==
              RDiv100(RAdd(RScale(40, semantic_score),
                           RAdd(RScale(35, phonetic_score),
                                RScale(25, fuzzy_score))))
          highest == RMax(highest_ensemble_score, total_similarity)
      IN  IF matched_title = "" \/ matched_title \in seen_matches
          THEN EnsembleLoop(clean_title, matches, highest_ensemble_score,
                            seen_matches, i + 1)
          ELSE IF clean_match = ""
          THEN EnsembleLoop(clean_title, matches, highest_ensemble_score,
                            seen_matches \cup {matched_title}, i + 1)
          ELSE IF RLeq(Num(ENSEMBLE_REJECT_THRESHOLD), total_similarity)
          THEN [highest_ensemble_score |-> highest,
                ensemble_reasons |->
                    <<_build_ensemble_reason(matched_title, total_similarity,
                          semantic_score, phonetic_score, fuzzy_score)>>]
          ELSE EnsembleLoop(clean_title, matches, highest,
                            seen_matches \cup {matched_title}, i + 1)

\* What the semantic stage leaves when embed or the RPC raises.
SemanticFailed == [highest_ensemble_score |-> Num(0), ensemble_reasons |-> <<>>]

\* list(dict.fromkeys(seq)): the first occurrence of each element, in order.
RECURSIVE Dedupe(_, _)
Dedupe(seq, seen) ==
    IF seq = <<>> THEN <<>>
    ELSE IF Head(seq) \in seen THEN Dedupe(Tail(seq), seen)
    ELSE <<Head(seq)>> \o Dedupe(Tail(seq), seen \cup {Head(seq)})

FinalVerdict_EnsembleOnly(lexical_rejections, lexical_score, semantic) ==
    LET final_similarity == semantic.highest_ensemble_score
        probability == Probability(final_similarity)
        reasons == Dedupe(lexical_rejections \o semantic.ensemble_reasons, {})
    IN  IF RLeq(Num(ENSEMBLE_REJECT_THRESHOLD), final_similarity)
        THEN VerificationResponse("rejected", Round2(probability),
                 Round2(final_similarity), TRUE,
                 IF reasons # <<>> THEN reasons
                 ELSE <<Reason("High conceptual similarity detected", <<>>, -1)>>,
                 "Rejected by weighted lexical, phonetic, and semantic scoring.")
        ELSE VerificationResponse("success", Round2(probability),
                 Round2(final_similarity), FALSE, <<>>,
                 "Title passed automated validation checks.")

\* The end of cached_verification_logic, after the semantic stage.
FinalVerdict(lexical_rejections, lexical_score, semantic) ==
    LET final_similarity == RMax(lexical_score, semantic.highest_ensemble_score)
        probability == Probability(final_similarity)
        reasons == Dedupe(lexical_rejections \o semantic.ensemble_reasons, {})
    IN  IF RLeq(Num(ENSEMBLE_REJECT_THRESHOLD), final_similarity)
        THEN VerificationResponse("rejected", Round2(probability),
                 Round2(final_similarity), TRUE,
                 IF reasons # <<>> THEN reasons
                 ELSE <<Reason("High conceptual similarity detected", <<>>, -1)>>,
                 "Rejected by weighted lexical, phonetic, and semantic scoring.")
        ELSE VerificationResponse("success", Round2(probability),
                 Round2(final_similarity), FALSE, <<>>,
                 "Title passed automated validation checks.")

(***************************************************************************)
(* The service: handler slots, lock, responses                             *)
(***************************************************************************)
\* Handler slots: a slot serves one request at a time.
Slots == {"r1", "r2"}

Unlocked == [owner |-> "none", depth |-> 0]

\* RLock.acquire by p succeeds when the lock is free or p owns it.
CanAcquire(p) == index_lock.owner \in {"none", p}
Acquired(p) == [owner |-> p, depth |-> index_lock.depth + 1]
Released ==
    IF index_lock.depth = 1 THEN Unlocked
    ELSE [index_lock EXCEPT !.depth = @ - 1]

NoVerdict ==
    [status |-> "", verification_probability |-> Num(0),
     similarity_percentage |-> Num(0), is_rejected |-> FALSE,
     rejection_reasons |-> <<>>, feedback |-> ""]

NoRequest == [kind |-> "none", title |-> "", language |-> ""]
NoResponse == [code |-> 0, verdict |-> NoVerdict, indexed_titles |-> 0]
NoLocals ==
    [clean_title |-> "", lexical_rejections |-> <<>>,
     lexical_score |-> Num(0), rule_rejections |-> <<>>,
     semantic |-> "", highest_ensemble_score |-> Num(0),
     exists |-> FALSE, verdict |-> NoVerdict]
NothingSeen == [committed |-> {}, existing |-> {}]
LifeOff == [pc |-> "off", start |-> 0, loaded |-> 0, rows |-> <<>>]

\* The service is not running (the TitleIndex is used directly).
ServiceOff ==
    /\ store = <<>>
    /\ life = LifeOff
    /\ index_lock = Unlocked
    /\ cache = EmptyMap
    /\ req = [p \in Slots |-> NoRequest]
    /\ pc = [p \in Slots |-> "idle"]
    /\ loc = [p \in Slots |-> NoLocals]
    /\ resp = [p \in Slots |-> NoResponse]
    /\ started = 0
    /\ committed = {}
    /\ atStart = [p \in Slots |-> NothingSeen]
    /\ effects = [p \in Slots |-> <<>>]
    /\ pending = {}

(***************************************************************************)
(* Direct use of a TitleIndex: add_title, extend, clear, detect            *)
(***************************************************************************)
\* Raw titles offered in the batches passed to extend.
BatchPool == {"d4n", "Tal-Dan", "-", "tal"}

Batches == UNION {[1..k -> BatchPool] : k \in 0..MaxBatch}

\* The titles queried: those added, and titles that are never added.
QueryPool == RawPool \cup {"an", "dtan"}

NoOp == [op |-> "none", arg |-> "", result |-> Result(<<>>, Num(0))]

IndexInit ==
    /\ title_index = TitleIndex
    /\ added = {}
    /\ last = NoOp
    /\ ServiceOff

\* The titles passed to enforce_guidelines: one per rule, titles that break
\* two rules or none, and one that is empty once normalized.
GuidelinePool ==
    {"cid dan", "Army CID", "Daily Dan", "Daily India", "India Dan",
     "Dan News", "India India", "The Daily Dan", "tal", "-"}

\* The titles passed to _detect_combination: of one, two and three words,
\* with a word repeated, and one that is empty once normalized.
CombinationPool ==
    {"Dan", "dan tal", "Tal-Dan", "dan tal dan", "Dan Dan", "daily dan daily",
     "-"}

\* A call is made when the result of the previous one has been taken.
Idle == last.op \notin {"detect", "guidelines", "combination"}

AddTitle(raw) ==
    /\ Idle
    /\ Cardinality(added \cup {raw}) <= MaxTitles
    /\ title_index' = add_title(title_index, raw)
    /\ added' = added \cup {raw}
    /\ last' = NoOp
    /\ UNCHANGED svars

Extend(batch) ==
    /\ Idle
    /\ Cardinality(added \cup Range(batch)) <= MaxTitles
    /\ title_index' = extend(title_index, batch)
    /\ added' = added \cup Range(batch)
    /\ last' = NoOp
    /\ UNCHANGED svars

Clear ==
    /\ Idle
    /\ title_index' = clear(title_index)
    /\ added' = {}
    /\ last' = [NoOp EXCEPT !.op = "clear"]
    /\ UNCHANGED svars

Detect(raw) ==
    /\ Idle
    /\ \E r \in detect_lexical_conflicts(title_index, raw, FALSE) :
          last' = [op |-> "detect", arg |-> raw, result |-> r]
    /\ UNCHANGED <<title_index, added>>
    /\ UNCHANGED svars

\* reasons = enforce_guidelines(raw, index)
Guidelines(raw) ==
    /\ Idle
    /\ last' = [op |-> "guidelines", arg |-> raw,
                result |-> [reasons |-> enforce_guidelines(raw, title_index, FALSE)]]
    /\ UNCHANGED <<title_index, added>>
    /\ UNCHANGED svars

\* combination = self._detect_combination(clean_title), as
\* detect_lexical_conflicts calls it, with the normalized title.
Combination(raw) ==
    /\ Idle
    /\ last' = [op |-> "combination", arg |-> raw,
                result |-> [grouping |->
                    _detect_combination(title_index, sanitize_input(raw))]]
    /\ UNCHANGED <<title_index, added>>
    /\ UNCHANGED svars

\* The caller takes the result of detect_lexical_conflicts, of
\* enforce_guidelines or of _detect_combination.
Return ==
    /\ last.op \in {"detect", "guidelines", "combination"}
    /\ last' = NoOp
    /\ UNCHANGED <<title_index, added>>
    /\ UNCHANGED svars

IndexNext ==
    \/ \E raw \in RawPool : AddTitle(raw)
    \/ \E batch \in Batches : Extend(batch)
    \/ Clear
    \/ \E raw \in QueryPool : Detect(raw)
    \/ \E raw \in GuidelinePool : Guidelines(raw)
    \/ \E raw \in CombinationPool : Combination(raw)
    \/ Return

SpecIndex == IndexInit /\ [][IndexNext]_vars

(***************************************************************************)
(* Direct use of sanitize_input on arbitrary text                          *)
(***************************************************************************)
\* Length of a text passed to sanitize_input, at most.
MaxLen == 4

\* The characters the texts are made of: a lower-case and an upper-case
\* letter, a digit of LEET_MAP and one outside it, a symbol of LEET_MAP and
\* one outside it, the two kinds of whitespace and a non-ASCII letter.
Alphabet == {"a", "B", "4", "2", "@", "-", " ", "\t", "é"}

RECURSIVE Texts(_)
Texts(n) ==
    IF n = 0 THEN {""}
    ELSE LET shorter == Texts(n - 1)
         IN  shorter \cup {t \o c : t \in shorter, c \in Alphabet}

\* A text is given; the index and the service are not in use.
TextInit ==
    /\ title_index = TitleIndex
    /\ added = {}
    /\ \E text \in Texts(MaxLen) :
          last = [op |-> "text", text |-> text, arg |-> text, result |-> ""]
    /\ ServiceOff

\* normalized = sanitize_input(text)
Sanitize ==
    /\ last.op = "text"
    /\ last' = [last EXCEPT !.op = "sanitize",
                            !.result = sanitize_input(last.arg)]
    /\ UNCHANGED <<title_index, added>>
    /\ UNCHANGED svars

\* sanitize_input(normalized): the result of one call is passed to the next,
\* as add_title, detect_lexical_conflicts and the handlers do with titles
\* that went through sanitize_input before.
SanitizeAgain ==
    /\ last.op = "sanitize"
    /\ last' = [last EXCEPT !.op = "sanitize_again",
                            !.arg = last.result,
                            !.result = sanitize_input(last.result)]
    /\ UNCHANGED <<title_index, added>>
    /\ UNCHANGED svars

TextNext ==
    \/ Sanitize
    \/ SanitizeAgain

SpecText == TextInit /\ [][TextNext]_vars

(***************************************************************************)
(* The service: startup and shutdown (lifespan)                            *)
(***************************************************************************)
\* The page size of the startup loop (batch_size, 1000 in the source),
\* scaled to the stores of the model.
PageSize == 2

\* Number of requests one run of the service accepts.
MaxRequests == 3

\* The existing_titles table at startup: the Title of each row ("" is a
\* row without a Title).
Stores == {<<"Dan">>, <<"Dan", "", "d4n", "Dalland">>}

\* .range(start, start + batch_size - 1): the rows at offsets start..end.
FetchRange(rows, first, end) ==
    SubSeq(rows, first + 1, IF end + 1 < Len(rows) THEN end + 1 ELSE Len(rows))

NonEmpty(raw_title) == raw_title # ""

\* batch_titles: the Titles of the page's rows that have one
BatchTitles(rows) == SelectSeq(rows, NonEmpty)

Init ==
    /\ title_index = TitleIndex
    /\ added = {}
    /\ last = NoOp
    /\ store \in Stores
    /\ life = [pc |-> "l_fetch", start |-> 0, loaded |-> 0, rows |-> <<>>]
    /\ index_lock = Unlocked
    /\ cache = EmptyMap
    /\ req = [p \in Slots |-> NoRequest]
    /\ pc = [p \in Slots |-> "idle"]
    /\ loc = [p \in Slots |-> NoLocals]
    /\ resp = [p \in Slots |-> NoResponse]
    /\ started = 0
    /\ committed = {}
    /\ atStart = [p \in Slots |-> NothingSeen]
    /\ effects = [p \in Slots |-> <<>>]
    /\ pending = {}

\* One page is read from the store; an empty page ends the loop and the
\* service starts to serve.
LifespanFetch ==
    /\ life.pc = "l_fetch"
    /\ LET rows == FetchRange(store, life.start, life.start + PageSize - 1)
       IN  life' = [life EXCEPT !.rows = rows,
                        !.pc = IF rows = <<>> THEN "serving" ELSE "l_extend"]
    /\ UNCHANGED <<title_index, added, last, store, index_lock, cache, req,
                   pc, loc, resp, started, committed, atStart, effects,
                   pending>>

\* with index_lock: title_index.extend(batch_titles)
LifespanExtend ==
    /\ life.pc = "l_extend"
    /\ CanAcquire("lifespan")
    /\ index_lock' = Acquired("lifespan")
    /\ title_index' = extend(title_index, BatchTitles(life.rows))
    /\ added' = added \cup Range(BatchTitles(life.rows))
    /\ pending' = pending \cup {"lifespan"}
    /\ life' = [life EXCEPT !.pc = "l_extend_unlock"]
    /\ UNCHANGED <<last, store, cache, req, pc, loc, resp, started, committed,
                   atStart, effects>>

\* The lock is released; loaded and start advance; back to the fetch.
LifespanExtendUnlock ==
    /\ life.pc = "l_extend_unlock"
    /\ index_lock' = Released
    /\ life' = [pc |-> "l_fetch",
                start |-> life.start + PageSize,
                loaded |-> life.loaded + Len(BatchTitles(life.rows)),
                rows |-> <<>>]
    /\ UNCHANGED <<title_index, added, last, store, cache, req, pc, loc, resp,
                   started, committed, atStart, effects, pending>>

\* Shutdown, once no request is being served:
\* with index_lock: title_index.clear()
LifespanShutdown ==
    /\ life.pc = "serving"
    /\ \A p \in Slots : pc[p] = "idle"
    /\ CanAcquire("lifespan")
    /\ index_lock' = Acquired("lifespan")
    /\ title_index' = clear(title_index)
    /\ added' = {}
    /\ pending' = pending \cup {"lifespan"}
    /\ life' = [life EXCEPT !.pc = "l_clear_unlock"]
    /\ UNCHANGED <<last, store, cache, req, pc, loc, resp, started, committed,
                   atStart, effects>>

LifespanClearUnlock ==
    /\ life.pc = "l_clear_unlock"
    /\ index_lock' = Released
    /\ life' = [life EXCEPT !.pc = "stopped"]
    /\ UNCHANGED <<title_index, added, last, store, cache, req, pc, loc, resp,
                   started, committed, atStart, effects, pending>>

(***************************************************************************)
(* The service: POST /verify                                               *)
(***************************************************************************)
\* Requests to /verify: title and language ("" is no language given).
VerifyPool ==
    {<<"tal", "">>, <<"dall", "Hindi">>, <<"dlan", "">>,
     <<"Daily Dan", "English">>, <<"India Dan", "English">>,
     <<"da", "English">>}

\* What the match_titles RPC may return.
MatchPool ==
    {<<>>,
     <<Match("Tal", Rat(5178, 10000))>>,
     <<Match("", Num(1)), Match("Dan", Rat(9, 10)), Match("Dan", Rat(9, 10)),
       Match("Tal", Num(1))>>}

Accepting(p) ==
    /\ life.pc = "serving"
    /\ pc[p] = "idle"
    /\ started < MaxRequests

Seen == [committed |-> committed, existing |-> title_index.existing_titles]

CacheKey(p) == <<req[p].title, req[p].language>>

Respond(p, code, verdict) ==
    [resp EXCEPT ![p] = [NoResponse EXCEPT !.code = code, !.verdict = verdict]]

\* verify_new_title up to the cache lookup of cached_verification_logic:
\* a hit is the answer, a miss runs the function.
StartVerify(p, title, given) ==
    /\ Accepting(p)
    /\ \E language \in (IF given = "" THEN auto_detect_language(title)
                        ELSE {given}) :
         /\ req' = [req EXCEPT ![p] = [kind |-> "verify", title |-> title,
                                       language |-> language]]
         /\ IF <<title, language>> \in DOMAIN cache
            THEN /\ pc' = [pc EXCEPT ![p] = "done"]
                 /\ resp' = Respond(p, 200, cache[<<title, language>>])
            ELSE /\ pc' = [pc EXCEPT ![p] = "v_lexical"]
                 /\ resp' = resp
    /\ started' = started + 1
    /\ atStart' = [atStart EXCEPT ![p] = Seen]
    /\ UNCHANGED <<title_index, added, last, store, life, index_lock, cache,
                   loc, committed, effects, pending>>

\* check_combinations_and_phonetics: the with block is entered and
\* detect_lexical_conflicts reads the index.
VerifyLexical(p) ==
    /\ pc[p] = "v_lexical"
    /\ CanAcquire(p)
    /\ index_lock' = Acquired(p)
    /\ \E r \in check_combinations_and_phonetics(title_index, req[p].title) :
         loc' = [loc EXCEPT ![p].clean_title = r.normalized,
                            ![p].lexical_rejections = r.reasons,
                            ![p].lexical_score = r.score]
    /\ pc' = [pc EXCEPT ![p] = "v_lexical_unlock"]
    /\ UNCHANGED <<title_index, added, last, store, life, cache, req, resp,
                   started, committed, atStart, effects, pending>>

\* The with block ends; the lexical rejection.
VerifyLexicalUnlock(p) ==
    /\ pc[p] = "v_lexical_unlock"
    /\ index_lock' = Released
    /\ LET rejected ==
               RLeq(Num(LEXICAL_REJECT_THRESHOLD), loc[p].lexical_score)
       IN  /\ loc' = [loc EXCEPT ![p].verdict =
                  IF rejected
                  THEN LexicalVerdict(loc[p].lexical_rejections,
                                      loc[p].lexical_score)
                  ELSE NoVerdict]
           /\ pc' = [pc EXCEPT ![p] =
                  IF rejected THEN "v_return" ELSE "v_guidelines"]
    /\ UNCHANGED <<title_index, added, last, store, life, cache, req, resp,
                   started, committed, atStart, effects, pending>>

\* with index_lock: rule_rejections = enforce_guidelines(...)
VerifyGuidelines(p) ==
    /\ pc[p] = "v_guidelines"
    /\ CanAcquire(p)
    /\ index_lock' = Acquired(p)
    /\ loc' = [loc EXCEPT ![p].rule_rejections =
           enforce_guidelines(loc[p].clean_title, title_index, TRUE)]
    /\ pc' = [pc EXCEPT ![p] = "v_guidelines_unlock"]
    /\ UNCHANGED <<title_index, added, last, store, life, cache, req, resp,
                   started, committed, atStart, effects, pending>>

\* The with block ends and only the guideline rejection follows: a lexical
\* score of ENSEMBLE_REJECT_THRESHOLD or more goes on to the semantic stage.
VerifyGuidelinesUnlock_NoEarlyExit(p) ==
    /\ pc[p] = "v_guidelines_unlock"
    /\ index_lock' = Released
    /\ loc' = [loc EXCEPT ![p].verdict =
           IF loc[p].rule_rejections # <<>>
           THEN GuidelineVerdict(loc[p].rule_rejections)
           ELSE NoVerdict]
    /\ pc' = [pc EXCEPT ![p] =
           IF loc[p].rule_rejections # <<>> THEN "v_return" ELSE "v_embed"]
    /\ UNCHANGED <<title_index, added, last, store, life, cache, req, resp,
                   started, committed, atStart, effects, pending>>

\* The with block ends; the guideline rejection, then the rejection on
\* the lexical score alone.
VerifyGuidelinesUnlock(p) ==
    /\ pc[p] = "v_guidelines_unlock"
    /\ index_lock' = Released
    /\ LET early == RLeq(Num(ENSEMBLE_REJECT_THRESHOLD), loc[p].lexical_score)
       IN  /\ loc' = [loc EXCEPT ![p].verdict =
                  IF loc[p].rule_rejections # <<>>
                  THEN GuidelineVerdict(loc[p].rule_rejections)
                  ELSE IF early
                  THEN EarlyEnsembleVerdict(loc[p].lexical_rejections,
                                            loc[p].lexical_score)
                  ELSE NoVerdict]
           /\ pc' = [pc EXCEPT ![p] =
                  IF loc[p].rule_rejections # <<>> \/ early THEN "v_return"
                  ELSE "v_embed"]
    /\ UNCHANGED <<title_index, added, last, store, life, cache, req, resp,
                   started, committed, atStart, effects, pending>>

\* The semantic stage is over (scored, or failed with an exception): the
\* end of cached_verification_logic.
SemanticDone(p, how, semantic) ==
    /\ loc' = [loc EXCEPT
           ![p].semantic = how,
           ![p].highest_ensemble_score = semantic.highest_ensemble_score,
           ![p].verdict =
               FinalVerdict(loc[p].lexical_rejections, loc[p].lexical_score,
                            semantic)]
    /\ pc' = [pc EXCEPT ![p] = "v_return"]

VerifyEmbed_Propagates(p) ==
    /\ pc[p] = "v_embed"
    /\ \/ /\ pc' = [pc EXCEPT ![p] = "v_rpc"]
          /\ loc' = loc
          /\ resp' = resp
       \/ /\ pc' = [pc EXCEPT ![p] = "done"]
          /\ loc' = [loc EXCEPT ![p].semantic = "embed_failed"]
          /\ resp' = Respond(p, 500, NoVerdict)
    /\ UNCHANGED <<title_index, added, last, store, life, index_lock, cache,
                   req, started, committed, atStart, effects, pending>>

\* embed(title) returns a vector or raises; the except branch goes on
\* without the vector stage.
VerifyEmbed(p) ==
    /\ pc[p] = "v_embed"
    /\ \/ /\ pc' = [pc EXCEPT ![p] = "v_rpc"]
          /\ loc' = loc
       \/ SemanticDone(p, "embed_failed", SemanticFailed)
    /\ UNCHANGED <<title_index, added, last, store, life, index_lock, cache,
                   req, resp, started, committed, atStart, effects, pending>>

\* The match_titles RPC returns rows or raises; the rows are scored.
VerifyRpc(p) ==
    /\ pc[p] = "v_rpc"
    /\ \/ \E matches \in MatchPool :
             SemanticDone(p, "scored",
                 EnsembleLoop(loc[p].clean_title, matches, Num(0), {}, 1))
       \/ SemanticDone(p, "rpc_failed", SemanticFailed)
    /\ UNCHANGED <<title_index, added, last, store, life, index_lock, cache,
                   req, resp, started, committed, atStart, effects, pending>>

\* cached_verification_logic returns: lru_cache stores the result under the
\* key unless the key has been stored meanwhile, and the handler answers.
VerifyReturn(p) ==
    /\ pc[p] = "v_return"
    /\ cache' = IF CacheKey(p) \in DOMAIN cache THEN cache
                ELSE [k \in DOMAIN cache \cup {CacheKey(p)} |->
                         IF k = CacheKey(p) THEN loc[p].verdict ELSE cache[k]]
    /\ resp' = Respond(p, 200, loc[p].verdict)
    /\ pc' = [pc EXCEPT ![p] = "done"]
    /\ UNCHANGED <<title_index, added, last, store, life, index_lock, req,
                   loc, started, committed, atStart, effects, pending>>

\* The response has been sent; the slot is free again.
Finish(p) ==
    /\ pc[p] = "done"
    /\ pc' = [pc EXCEPT ![p] = "idle"]
    /\ req' = [req EXCEPT ![p] = NoRequest]
    /\ loc' = [loc EXCEPT ![p] = NoLocals]
    /\ resp' = [resp EXCEPT ![p] = NoResponse]
    /\ atStart' = [atStart EXCEPT ![p] = NothingSeen]
    /\ effects' = [effects EXCEPT ![p] = <<>>]
    /\ UNCHANGED <<title_index, added, last, store, life, index_lock, cache,
                   started, committed, pending>>

(***************************************************************************)
(* The service: POST /submit_application                                   *)
(***************************************************************************)
\* Titles submitted (language and owner_email play no part in the handler).
SubmitPool == {"tal", "-", "d4n"}

StartSubmit_NoEmptyCheck(p, title) ==
    /\ Accepting(p)
    /\ LET clean_title == sanitize_input(title)
       IN  /\ req' = [req EXCEPT ![p] = [kind |-> "submit", title |-> title,
                                         language |-> "English"]]
           /\ loc' = [loc EXCEPT ![p].clean_title = clean_title]
           /\ IF FALSE
              THEN /\ pc' = [pc EXCEPT ![p] = "done"]
                   /\ resp' = Respond(p, 400, NoVerdict)
              ELSE /\ pc' = [pc EXCEPT ![p] = "s_check"]
                   /\ resp' = resp
    /\ started' = started + 1
    /\ atStart' = [atStart EXCEPT ![p] = Seen]
    /\ UNCHANGED <<title_index, added, last, store, life, index_lock, cache,
                   committed, effects, pending>>

\* sanitize_input and the empty check: 400 when nothing is left.
StartSubmit(p, title) ==
    /\ Accepting(p)
    /\ LET clean_title == sanitize_input(title)
       IN  /\ req' = [req EXCEPT ![p] = [kind |-> "submit", title |-> title,
                                         language |-> "English"]]
           /\ loc' = [loc EXCEPT ![p].clean_title = clean_title]
           /\ IF clean_title = ""
              THEN /\ pc' = [pc EXCEPT ![p] = "done"]
                   /\ resp' = Respond(p, 400, NoVerdict)
              ELSE /\ pc' = [pc EXCEPT ![p] = "s_check"]
                   /\ resp' = resp
    /\ started' = started + 1
    /\ atStart' = [atStart EXCEPT ![p] = Seen]
    /\ UNCHANGED <<title_index, added, last, store, life, index_lock, cache,
                   committed, effects, pending>>

\* with index_lock: is the normalized title in existing_titles?
SubmitCheck(p) ==
    /\ pc[p] = "s_check"
    /\ CanAcquire(p)
    /\ index_lock' = Acquired(p)
    /\ loc' = [loc EXCEPT ![p].exists =
           loc[p].clean_title \in title_index.existing_titles]
    /\ pc' = [pc EXCEPT ![p] = "s_check_unlock"]
    /\ UNCHANGED <<title_index, added, last, store, life, cache, req, resp,
                   started, committed, atStart, effects, pending>>

SubmitCheckUnlock_KeepsLock(p) ==
    /\ pc[p] = "s_check_unlock"
    /\ index_lock' = (IF loc[p].exists THEN Released ELSE index_lock)
    /\ IF loc[p].exists
       THEN /\ pc' = [pc EXCEPT ![p] = "done"]
            /\ resp' = Respond(p, 409, NoVerdict)
       ELSE /\ pc' = [pc EXCEPT ![p] = "s_insert"]
            /\ resp' = resp
    /\ UNCHANGED <<title_index, added, last, store, life, cache, req, loc,
                   started, committed, atStart, effects, pending>>

\* The with block is left, by the 409 or at its end.
SubmitCheckUnlock(p) ==
    /\ pc[p] = "s_check_unlock"
    /\ index_lock' = Released
    /\ IF loc[p].exists
       THEN /\ pc' = [pc EXCEPT ![p] = "done"]
            /\ resp' = Respond(p, 409, NoVerdict)
       ELSE /\ pc' = [pc EXCEPT ![p] = "s_insert"]
            /\ resp' = resp
    /\ UNCHANGED <<title_index, added, last, store, life, cache, req, loc,
                   started, committed, atStart, effects, pending>>

SubmitInsert_IgnoresFailure(p) ==
    /\ pc[p] = "s_insert"
    /\ \/ /\ store' = Append(store, req[p].title)
          /\ effects' = [effects EXCEPT ![p] = Append(@, "insert")]
          /\ pc' = [pc EXCEPT ![p] = "s_add"]
          /\ resp' = resp
       \/ /\ store' = store
          /\ effects' = [effects EXCEPT ![p] = Append(@, "insert_failed")]
          /\ pc' = [pc EXCEPT ![p] = "s_add"]
          /\ resp' = resp
    /\ UNCHANGED <<title_index, added, last, life, index_lock, cache, req,
                   loc, started, committed, atStart, pending>>

\* The insert into existing_titles: the row is stored, or the call raises
\* and the handler answers 500.
SubmitInsert(p) ==
    /\ pc[p] = "s_insert"
    /\ \/ /\ store' = Append(store, req[p].title)
          /\ effects' = [effects EXCEPT ![p] = Append(@, "insert")]
          /\ pc' = [pc EXCEPT ![p] = "s_add"]
          /\ resp' = resp
       \/ /\ store' = store
          /\ effects' = [effects EXCEPT ![p] = Append(@, "insert_failed")]
          /\ pc' = [pc EXCEPT ![p] = "done"]
          /\ resp' = Respond(p, 500, NoVerdict)
    /\ UNCHANGED <<title_index, added, last, life, index_lock, cache, req,
                   loc, started, committed, atStart, pending>>

SubmitAdd_ClearsInsideLock(p) ==
    /\ pc[p] = "s_add"
    /\ CanAcquire(p)
    /\ index_lock' = Acquired(p)
    /\ title_index' = add_title(title_index, req[p].title)
    /\ added' = added \cup {req[p].title}
    /\ cache' = EmptyMap
    /\ pending' = {}
    /\ effects' = [effects EXCEPT ![p] = @ \o <<"lock", "add", "cache_clear">>]
    /\ pc' = [pc EXCEPT ![p] = "s_unlock"]
    /\ UNCHANGED <<last, store, life, req, loc, resp, started, committed,
                   atStart>>

\* with index_lock: title_index.add_title(app_data.title), up to the end of
\* the block.
SubmitAdd(p) ==
    /\ pc[p] = "s_add"
    /\ CanAcquire(p)
    /\ index_lock' = Acquired(p)
    /\ title_index' = add_title(title_index, req[p].title)
    /\ added' = added \cup {req[p].title}
    /\ cache' = cache
    /\ pending' = pending \cup {p}
    /\ effects' = [effects EXCEPT ![p] = @ \o <<"lock", "add">>]
    /\ pc' = [pc EXCEPT ![p] = "s_unlock"]
    /\ UNCHANGED <<last, store, life, req, loc, resp, started, committed,
                   atStart>>

\* The with block ends: the lock is released.
SubmitUnlock(p) ==
    /\ pc[p] = "s_unlock"
    /\ index_lock' = Released
    /\ effects' = [effects EXCEPT ![p] = Append(@, "unlock")]
    /\ pc' = [pc EXCEPT ![p] = "s_clear"]
    /\ UNCHANGED <<title_index, added, last, store, life, cache, req, loc,
                   resp, started, committed, atStart, pending>>

\* cached_verification_logic.cache_clear(), and the handler returns success.
SubmitCacheClear(p) ==
    /\ pc[p] = "s_clear"
    /\ cache' = EmptyMap
    /\ pending' = {}
    /\ effects' = [effects EXCEPT ![p] = Append(@, "cache_clear")]
    /\ resp' = Respond(p, 200, NoVerdict)
    /\ committed' = committed \cup {req[p].title}
    /\ pc' = [pc EXCEPT ![p] = "done"]
    /\ UNCHANGED <<title_index, added, last, store, life, index_lock, req,
                   loc, started, atStart>>

(***************************************************************************)
(* The service: GET /healthz                                               *)
(***************************************************************************)
StartHealthz(p) ==
    /\ Accepting(p)
    /\ req' = [req EXCEPT ![p] = [kind |-> "healthz", title |-> "",
                                  language |-> ""]]
    /\ pc' = [pc EXCEPT ![p] = "h_read"]
    /\ started' = started + 1
    /\ atStart' = [atStart EXCEPT ![p] = Seen]
    /\ UNCHANGED <<title_index, added, last, store, life, index_lock, cache,
                   loc, resp, committed, effects, pending>>

\* with index_lock: total_titles = len(title_index.existing_titles)
HealthzRead(p) ==
    /\ pc[p] = "h_read"
    /\ CanAcquire(p)
    /\ index_lock' = Acquired(p)
    /\ resp' = [resp EXCEPT ![p].indexed_titles =
           Cardinality(title_index.existing_titles)]
    /\ pc' = [pc EXCEPT ![p] = "h_unlock"]
    /\ UNCHANGED <<title_index, added, last, store, life, cache, req, loc,
                   started, committed, atStart, effects, pending>>

\* The with block ends and the handler answers.
HealthzUnlock(p) ==
    /\ pc[p] = "h_unlock"
    /\ index_lock' = Released
    /\ resp' = [resp EXCEPT ![p].code = 200]
    /\ pc' = [pc EXCEPT ![p] = "done"]
    /\ UNCHANGED <<title_index, added, last, store, life, cache, req, loc,
                   started, committed, atStart, effects, pending>>

(***************************************************************************)
(* The service as a whole                                                  *)
(***************************************************************************)
Next ==
    \/ LifespanFetch
    \/ LifespanExtend
    \/ LifespanExtendUnlock
    \/ LifespanShutdown
    \/ LifespanClearUnlock
    \/ \E p \in Slots, v \in VerifyPool : StartVerify(p, v[1], v[2])
    \/ \E p \in Slots : VerifyLexical(p)
    \/ \E p \in Slots : VerifyLexicalUnlock(p)
    \/ \E p \in Slots : VerifyGuidelines(p)
    \/ \E p \in Slots : VerifyGuidelinesUnlock(p)
    \/ \E p \in Slots : VerifyEmbed(p)
    \/ \E p \in Slots : VerifyRpc(p)
    \/ \E p \in Slots : VerifyReturn(p)
    \/ \E p \in Slots, title \in SubmitPool : StartSubmit(p, title)
    \/ \E p \in Slots : SubmitCheck(p)
    \/ \E p \in Slots : SubmitCheckUnlock(p)
    \/ \E p \in Slots : SubmitInsert(p)
    \/ \E p \in Slots : SubmitAdd(p)
    \/ \E p \in Slots : SubmitUnlock(p)
    \/ \E p \in Slots : SubmitCacheClear(p)
    \/ \E p \in Slots : StartHealthz(p)
    \/ \E p \in Slots : HealthzRead(p)
    \/ \E p \in Slots : HealthzUnlock(p)
    \/ \E p \in Slots : Finish(p)

Spec == Init /\ [][Next]_vars

(***************************************************************************)
(* The corpus as the history of calls defines it (not read from the index) *)
(***************************************************************************)
\* Normalized forms of the raw titles added since the last clear.
Corpus == {sanitize_input(r) : r \in added} \ {""}

\* The canonical display title of corpus title m.
CorpusDisplay(m) == StrMin({Strip(r) : r \in {x \in added : sanitize_input(x) = m}})

Count(seq, w) == Cardinality({i \in 1..Len(seq) : seq[i] = w})

IsPermutation(a, b) ==
    Len(a) = Len(b) /\ \A w \in Range(a) \cup Range(b) : Count(a, w) = Count(b, w)

\* a is b with some elements removed, all of them in the set extra.
RECURSIVE IsExtension(_, _, _)
IsExtension(b, a, extra) ==
    IF b = <<>> THEN a = <<>>
    ELSE \/ a # <<>> /\ Head(a) = Head(b) /\ IsExtension(Tail(b), Tail(a), extra)
         \/ Head(b) \in extra /\ IsExtension(Tail(b), a, extra)

\* The spans of words cut after the positions in cuts.
SpansAt(words, cuts) ==
    LET bounds == cuts \cup {0, Len(words)}
    IN  {Join(SubSeq(words, lo + 1, hi)) :
            <<lo, hi>> \in {p \in bounds \X bounds :
                              p[1] < p[2] /\ \A x \in bounds : ~(p[1] < x /\ x < p[2])}}

\* Rule conditions of the table in terms of the corpus E and the normalized
\* query q.
RuleWordOrder(q, E) ==
    Len(Split(q)) >= 2 /\ \E m \in E : IsPermutation(Split(m), Split(q))

AcronymHits(q, E) ==
    {m \in E : Len(Split(m)) >= 2 /\ make_acronym(Split(m)) = q}

RuleAcronym(q, E) == Len(q) <= 8 /\ IsAlpha(q) /\ AcronymHits(q, E) # {}

PhoneticHits(q, E) ==
    {m \in E : /\ m # q
               /\ _metaphone_cached(q) # ""
               /\ _metaphone_cached(m) = _metaphone_cached(q)
               /\ RLeq(Num(60), fuzz_ratio(q, m))}

PeriodicBase(q) == Join(SelectSeq(Split(q), LAMBDA w : w \notin ADVANCED_PERIODICITY))

RulePeriodicity(q, E) ==
    PeriodicBase(q) # "" /\ PeriodicBase(q) \in E /\ PeriodicBase(q) # q

RuleCombination(q, E) ==
    LET words == Split(q)
    IN  \E cuts \in SUBSET (1..(Len(words) - 1)) :
           cuts # {} /\ SpansAt(words, cuts) \subseteq E

\* Corpus titles that get a vote for q (fewer than max_candidates here).
Voted(q, E) ==
    {m \in E : \/ Range(Split(m)) \cap Range(Split(q)) # {}
               \/ char_ngrams(m) \cap char_ngrams(q) # {}
               \/ (SubSeq(m, 1, 1) = SubSeq(q, 1, 1) /\ Abs(Len(m) - Len(q)) <= 8)}

BestRatio(q, E) ==
    LET rs == {fuzz_ratio(q, m) : m \in Voted(q, E) \ {q}}
    IN  IF rs = {} THEN Num(0) ELSE CHOOSE r \in rs : \A o \in rs : RLeq(o, r)

\* The first rule of the table whose condition holds (0: none).
FirstRule(q, E) ==
    IF q = "" THEN 1
    ELSE IF q \in E THEN 2
    ELSE IF RuleWordOrder(q, E) THEN 3
    ELSE IF RuleAcronym(q, E) THEN 4
    ELSE IF PhoneticHits(q, E) # {} THEN 5
    ELSE IF RulePeriodicity(q, E) THEN 6
    ELSE IF RuleCombination(q, E) THEN 7
    ELSE IF RLeq(Num(80), BestRatio(q, E)) THEN 8
    ELSE 0

RuleWording ==
    <<"Title cannot be empty after normalization", "Exact match",
      "Word-order variation", "Acronym collision", "Phonetic conflict",
      "Periodicity modifier", "combine existing titles",
      "Spelling/transliteration variation">>

\* res is the documented result of rule k for query q on corpus E.
DocumentedResult(res, k, q, E) ==
    IF k = 0 THEN res.reasons = <<>> /\ res.score = BestRatio(q, E)
    ELSE /\ Len(res.reasons) = 1
         /\ res.reasons[1].rule = RuleWording[k]
         /\ CASE k = 1 -> res.score = Num(100)
              [] k = 2 -> res.score = Num(100)
                          /\ res.reasons[1].titles = <<CorpusDisplay(q)>>
              [] k = 3 -> res.score = Num(99)
                          /\ \E m \in E : /\ IsPermutation(Split(m), Split(q))
                                          /\ res.reasons[1].titles = <<CorpusDisplay(m)>>
              [] k = 4 -> res.score = Num(98)
                          /\ \E m \in AcronymHits(q, E) :
                                res.reasons[1].titles = <<CorpusDisplay(m)>>
              [] k = 5 -> \E m \in PhoneticHits(q, E) :
                             /\ res.score = RMax(Num(92), fuzz_ratio(q, m))
                             /\ res.reasons[1].titles = <<CorpusDisplay(m)>>
              [] k = 6 -> res.score = Num(96)
                          /\ res.reasons[1].titles = <<CorpusDisplay(PeriodicBase(q))>>
              [] k = 7 -> res.score = Num(94)
                          /\ Len(res.reasons[1].titles) >= 2
              [] k = 8 -> res.score = BestRatio(q, E)
                          /\ \E m \in Voted(q, E) \ {q} :
                                /\ fuzz_ratio(q, m) = BestRatio(q, E)
                                /\ res.reasons[1].titles = <<CorpusDisplay(m)>>

Detected == last.op = "detect"
Query == sanitize_input(last.arg)
FirstReason == IF last.result.reasons = <<>> THEN "" ELSE last.result.reasons[1].rule

(***************************************************************************)
(* Claims about the TitleIndex (checked under SpecIndex)                   *)
(***************************************************************************)
\* C1: once a raw title with a non-empty normalization has been added, and
\* whatever is added after it, detect_lexical_conflicts of that raw title
\* returns score 100.0 and a first reason beginning with "Exact match", as
\* long as the index is not cleared.
C1_AddThenDetectIsExact ==
    (Detected /\ last.arg \in added /\ Query # "")
        => /\ last.result.score = Num(100)
           /\ FirstReason = "Exact match"

\* The added title is detected after further titles were added, and its raw
\* form differs from its normalized form.
C1_Witness ==
    /\ Detected /\ last.arg \in added /\ Query # "" /\ Query # last.arg
    /\ Cardinality(added) = MaxTitles
    /\ FirstReason = "Exact match"

\* C2 (as amended): detect_lexical_conflicts returns what the first rule of
\* the table whose condition holds documents (one reason, the documented
\* score), and an empty reason list with best_ratio when none holds; a
\* permutation of a corpus title's tokens that is not in the corpus scores
\* 99.0 with a "Word-order variation" reason; a corpus title without
\* periodicity words, extended with periodicity words, scores >= 90, with a
\* "Periodicity modifier" reason when rules 2-5 do not hold for it.
C2_FirstRuleDecides ==
    Detected =>
        /\ DocumentedResult(last.result, FirstRule(Query, Corpus), Query, Corpus)
        /\ (Query \notin Corpus
            /\ \E m \in Corpus : IsPermutation(Split(m), Split(Query)))
              => last.result.score = Num(99) /\ FirstReason = "Word-order variation"
        /\ (\E m \in Corpus :
                /\ Range(Split(m)) \cap ADVANCED_PERIODICITY = {}
                /\ m # Query
                /\ IsExtension(Split(Query), Split(m), ADVANCED_PERIODICITY))
              => /\ RLeq(Num(90), last.result.score)
                 /\ FirstRule(Query, Corpus) \notin 2..5
                       => FirstReason = "Periodicity modifier"

\* A periodicity extension is reported as such while the corpus holds other
\* titles.
C2_Witness ==
    /\ Detected /\ FirstReason = "Periodicity modifier"
    /\ last.result.score = Num(96)
    /\ Cardinality(Corpus) >= 2

\* C2 as stated: the same, with the periodicity part for every corpus title
\* extended with periodicity words.
C2_AsStated ==
    Detected =>
        /\ DocumentedResult(last.result, FirstRule(Query, Corpus), Query, Corpus)
        /\ (Query \notin Corpus
            /\ \E m \in Corpus : IsPermutation(Split(m), Split(Query)))
              => last.result.score = Num(99) /\ FirstReason = "Word-order variation"
        /\ (\E m \in Corpus :
                /\ m # Query
                /\ IsExtension(Split(Query), Split(m), ADVANCED_PERIODICITY))
              => /\ RLeq(Num(90), last.result.score)
                 /\ FirstReason = "Periodicity modifier"

IndexMaps ==
    {title_index.canonical_titles, title_index.phonetic_map,
     title_index.sorted_titles_map, title_index.acronym_map,
     title_index.token_index, title_index.trigram_index,
     title_index.first_char_index}

\* C3: existing_titles is the set of non-empty normalized forms of the raw
\* titles added since the last clear; a raw title whose normalization is
\* empty leaves no entry in any map (every entry of every map belongs to a
\* non-empty normalized title of the corpus, and the raw forms kept are those
\* of titles with a non-empty normalization); right after clear all eight
\* maps are empty.
C3_ExistingTitlesAreTheCorpus ==
    /\ title_index.existing_titles = Corpus
    /\ \A m \in IndexMaps : \A k \in DOMAIN m : m[k] # {} /\ k # ""
    /\ \A m \in IndexMaps \ {title_index.canonical_titles} :
          \A k \in DOMAIN m : m[k] \subseteq Corpus
    /\ DOMAIN title_index.canonical_titles = Corpus
    /\ \A n \in Corpus :
          title_index.canonical_titles[n] =
              {Strip(r) : r \in {x \in added : sanitize_input(x) = n}}
    /\ last.op = "clear" =>
          /\ title_index.existing_titles = {}
          /\ \A m \in IndexMaps : DOMAIN m = {}

\* Titles were added after a clear, one of them with an empty normalization
\* and two with the same one.
C3_Witness ==
    /\ \E r \in added : sanitize_input(r) = ""
    /\ Cardinality(added) = MaxTitles
    /\ Cardinality(Corpus) = 1
    /\ title_index.existing_titles # {}

\* C4: every normalized title n of existing_titles has a raw form in
\* canonical_titles[n], is in first_char_index[n[0]], in token_index[t] for
\* each token t of n, in trigram_index[g] for each trigram g of n, in
\* phonetic_map[p] when its phonetic key p is non-empty and, when it has at
\* least 2 tokens, in sorted_titles_map[sort-key(n)] and acronym_map[acronym(n)].
C4_EveryTitleIsIndexed ==
    \A n \in title_index.existing_titles :
        /\ MapGet(title_index.canonical_titles, n) # {}
        /\ n \in MapGet(title_index.first_char_index, SubSeq(n, 1, 1))
        /\ \A t \in Range(Split(n)) : n \in MapGet(title_index.token_index, t)
        /\ \A g \in char_ngrams(n) : n \in MapGet(title_index.trigram_index, g)
        /\ _metaphone_cached(n) # ""
              => n \in MapGet(title_index.phonetic_map, _metaphone_cached(n))
        /\ Len(Split(n)) >= 2
              => /\ n \in MapGet(title_index.sorted_titles_map, Join(Sorted(Split(n))))
                 /\ n \in MapGet(title_index.acronym_map, make_acronym(Split(n)))

\* The index holds a title of two tokens, one with an empty phonetic key and
\* a third one.
C4_Witness ==
    /\ \E n \in title_index.existing_titles : Len(Split(n)) >= 2
    /\ \E n \in title_index.existing_titles : _metaphone_cached(n) = ""
    /\ Cardinality(title_index.existing_titles) = MaxTitles


\* C14: the score detect_lexical_conflicts returns lies in [0, 100], for
\* every index and every query.
C14_ScoreWithinBounds ==
    Detected
    => /\ RLeq(Num(0), last.result.score)
       /\ RLeq(last.result.score, Num(100))

C14_Witness ==
    /\ Detected
    /\ FirstReason = "Spelling/transliteration variation"
    /\ RLess(Num(80), last.result.score)
    /\ RLess(last.result.score, Num(100))
    /\ Cardinality(title_index.existing_titles) >= 2

\* C15: when rules 1-7 do not fire, every corpus title m other than the
\* query whose fuzz.ratio with the query is 80 or more is found by rule 8:
\* the reason list is not empty and the score is at least that ratio.
C15_NoHighMatchMissed ==
    (Detected /\ FirstReason \in {"", "Spelling/transliteration variation"})
    => \A m \in Corpus \ {Query} :
          RLeq(Num(80), fuzz_ratio(Query, m))
          => /\ last.result.reasons # <<>>
             /\ RLeq(fuzz_ratio(Query, m), last.result.score)

\* C16: for the same added titles and the same query,
\* detect_lexical_conflicts has one result (reason list and score),
\* whatever the iteration order of the index's sets.
C16_OneResultPerQuery ==
    Detected
    => detect_lexical_conflicts(title_index, last.arg, FALSE) = {last.result}

\* The reasons of one guideline rule among the reasons returned.
ReasonsOf(rs, rule) == SelectSeq(rs, LAMBDA r : r.rule = rule)

Checked == last.op = "guidelines"

\* The conditions of the four guideline rules for the normalized title q on
\* the corpus E.
GuidelineDisallowed(q) == Range(Split(q)) \cap DISALLOWED_WORDS # {}

GuidelinePeriodicity(q, E) ==
    /\ Range(Split(q)) \cap ADVANCED_PERIODICITY # {}
    /\ RulePeriodicity(q, E)

GuidelinePrefix(q, E) ==
    LET words == Split(q)
    IN  /\ Len(words) >= 2
        /\ words[1] \in PREFIXES_SUFFIXES
        /\ Join(Tail(words)) \in E

GuidelineSuffix(q, E) ==
    LET words == Split(q)
    IN  /\ Len(words) >= 2
        /\ words[Len(words)] \in PREFIXES_SUFFIXES
        /\ Join(SubSeq(words, 1, Len(words) - 1)) \in E

Holding(cond) == IF cond THEN 1 ELSE 0

\* C19: enforce_guidelines applies all four rules to a non-empty normalized
\* title and reports every violated one with one reason each: the list
\* holds the reason of a rule exactly when that rule's condition holds on
\* the corpus, it holds nothing else, and a title that is empty once
\* normalized gets the single empty-title reason.
C19_EveryViolatedRuleReported ==
    Checked =>
        LET rs == last.result.reasons
            words == Split(Query)
            n(rule) == Len(ReasonsOf(rs, rule))
        IN  IF Query = ""
            THEN rs = <<GuidelineReason("Title cannot be empty", <<>>)>>
            ELSE /\ n("Contains disallowed words") = Holding(GuidelineDisallowed(Query))
                 /\ n("Uses periodicity term to modify an existing title")
                        = Holding(GuidelinePeriodicity(Query, Corpus))
                 /\ n("Disallowed prefix creates conflict with existing title")
                        = Holding(GuidelinePrefix(Query, Corpus))
                 /\ n("Disallowed suffix creates conflict with existing title")
                        = Holding(GuidelineSuffix(Query, Corpus))
                 /\ Len(rs) = Holding(GuidelineDisallowed(Query))
                                + Holding(GuidelinePeriodicity(Query, Corpus))
                                + Holding(GuidelinePrefix(Query, Corpus))
                                + Holding(GuidelineSuffix(Query, Corpus))
                 /\ \A i \in 1..Len(rs) :
                       rs[i].rule = "Contains disallowed words"
                       => rs[i].titles =
                             [k \in 1..Len(SortSet(Range(words) \cap DISALLOWED_WORDS)) |->
                                 Upper(SortSet(Range(words) \cap DISALLOWED_WORDS)[k])]

\* "India India" with "India" in the corpus breaks the prefix rule and the
\* suffix rule, and both are reported.
C19_Witness ==
    /\ Checked
    /\ GuidelinePrefix(Query, Corpus)
    /\ GuidelineSuffix(Query, Corpus)
    /\ Len(last.result.reasons) = 2

\* Two disallowed words are listed in upper case and alphabetical order,
\* a periodicity conflict is reported, and an empty title short-circuits.
C19_WitnessDisallowed ==
    /\ Checked
    /\ last.result.reasons = <<GuidelineReason("Contains disallowed words", <<"ARMY", "CID">>)>>

C19_WitnessPeriodicity ==
    /\ Checked
    /\ GuidelinePeriodicity(Query, Corpus)
    /\ Len(last.result.reasons) = 1

\* The spans of words cut after the positions in cuts, in order.
RECURSIVE SpanSeq(_, _, _)
SpanSeq(words, cuts, from) ==
    IF from >= Len(words) THEN <<>>
    ELSE LET later == {c \in cuts : c > from}
             to == IF later = {} THEN Len(words)
                   ELSE CHOOSE c \in later : \A o \in later : c <= o
         IN  <<Join(SubSeq(words, from + 1, to))>> \o SpanSeq(words, cuts, to)

\* The partitions of the words of q into at least two contiguous spans that
\* are all titles of the corpus E.
CorpusPartitions(q, E) ==
    LET words == Split(q)
    IN  {SpanSeq(words, cuts, 0) :
            cuts \in {c \in SUBSET (1..(Len(words) - 1)) :
                        c # {} /\ Range(SpanSeq(words, c, 0)) \subseteq E}}

Combined == last.op = "combination"

\* C22: combination detection is exact: for a query of at least two tokens
\* _detect_combination returns a grouping if and only if the tokens can be
\* partitioned into at least two contiguous spans that are corpus titles;
\* the grouping is the display titles, in order, of such a partition of all
\* the tokens; and when detect_lexical_conflicts reaches the rule, the
\* result is that grouping with score 94 and a 'combine existing titles'
\* reason.
C22_CombinationIsExact ==
    /\ (Combined /\ Len(Split(Query)) >= 2)
       => LET grouping == last.result.grouping
              parts == CorpusPartitions(Query, Corpus)
          IN  /\ grouping # <<>> <=> parts # {}
              /\ grouping # <<>>
                 => \E part \in parts :
                       grouping = [k \in 1..Len(part) |-> CorpusDisplay(part[k])]
    /\ (Combined /\ Len(Split(Query)) < 2) => last.result.grouping = <<>>
    /\ (Detected /\ FirstRule(Query, Corpus) = 7)
       => \E part \in CorpusPartitions(Query, Corpus) :
             last.result =
                 Result(<<Reason("combine existing titles",
                                 [k \in 1..Len(part) |-> CorpusDisplay(part[k])],
                                 -1)>>,
                        Num(94))

\* "dan tal dan" is split into "dan tal" and "dan" when "tal" alone is not
\* a title of the corpus.
C22_Witness ==
    /\ Combined
    /\ Query = "dan tal dan"
    /\ "tal" \notin Corpus
    /\ Len(last.result.grouping) = 2

\* Three spans are found, and no grouping when a word is in no title.
C22_WitnessThree ==
    /\ Combined
    /\ last.result.grouping = <<"Dan", "tal", "Dan">>

C22_WitnessNone ==
    /\ Combined
    /\ Query = "dan tal dan"
    /\ Corpus = {"dan"}
    /\ last.result.grouping = <<>>

C22_WitnessRule ==
    /\ Detected
    /\ FirstRule(Query, Corpus) = 7
    /\ last.result.score = Num(94)

\* C18: normalization is idempotent: for every text x,
\* sanitize_input(sanitize_input(x)) = sanitize_input(x).  The second call
\* is given the result of the first and returns it unchanged.
C18_SanitizeIdempotent ==
    last.op = "sanitize_again" => last.result = last.arg

\* A text that the first call changes (LEET_MAP, a symbol replaced, a run of
\* whitespace collapsed, lower case) has gone through both calls.
C18_Witness ==
    /\ last.op = "sanitize_again"
    /\ last.text = "4-\tB"
    /\ last.arg = "a b"
    /\ last.result = "a b"

(***************************************************************************)
(* Claims about the service (checked under Spec)                           *)
(***************************************************************************)
StepOf(p) == pc'[p] # pc[p]

Verifying(p) == req[p].kind = "verify"
Submitting(p) == req[p].kind = "submit"

Answered(p) == pc[p] = "done"

HasReason(verdict, rule) ==
    \E i \in 1..Len(verdict.rejection_reasons) :
        verdict.rejection_reasons[i].rule = rule

IsPrefix(a, b) == Len(a) <= Len(b) /\ SubSeq(b, 1, Len(a)) = a

C6_FailedInsertInv ==
    \A p \in Slots :
        "insert_failed" \in Range(effects[p])
        => /\ effects[p] = <<"insert_failed">>
           /\ Answered(p)
           /\ resp[p].code = 500

C6_FailedInsertStep ==
    \A p \in Slots :
        (StepOf(p) /\ Submitting(p) /\ "insert" \notin Range(effects'[p]))
        => /\ title_index' = title_index
           /\ cache' = cache
           /\ store' = store

\* C6: a failed store insert ends the request with a 500 and leaves the
\* index, the cache and the store as they were (both parts above).
C6_FailedInsertLeavesIndexAlone ==
    []C6_FailedInsertInv /\ [][C6_FailedInsertStep]_vars

C6_Witness ==
    \E p \in Slots :
        /\ Answered(p) /\ Submitting(p)
        /\ resp[p].code = 500
        /\ effects[p] = <<"insert_failed">>
        /\ loc[p].clean_title \notin title_index.existing_titles

\* C7: the effects of a submission happen in the order insert, lock, add,
\* unlock, cache clear; a successful one has them all; the cache is cleared
\* when the row is stored, the title is indexed and the lock is not held.
SubmitOrder == <<"insert", "lock", "add", "unlock", "cache_clear">>

C7_OrderInv ==
    \A p \in Slots :
        Submitting(p)
        => /\ IsPrefix(effects[p], SubmitOrder) \/ effects[p] = <<"insert_failed">>
           /\ resp[p].code = 200 => effects[p] = SubmitOrder
           /\ "insert" \in Range(effects[p]) => req[p].title \in Range(store)
           /\ "add" \in Range(effects[p])
                  => loc[p].clean_title \in title_index.existing_titles
           /\ ("lock" \in Range(effects[p]) /\ "unlock" \notin Range(effects[p]))
                  => index_lock.owner = p
           /\ "unlock" \in Range(effects[p]) => index_lock.owner # p

C7_ClearStep ==
    \A p \in Slots :
        (Submitting(p) /\ effects'[p] = Append(effects[p], "cache_clear"))
        => /\ index_lock.owner # p
           /\ index_lock'.owner # p
           /\ cache' = EmptyMap
           /\ loc[p].clean_title \in title_index.existing_titles
           /\ req[p].title \in Range(store)

\* C7: insert, then add under the lock, then unlock, and only then the
\* cache clear (both parts above).
C7_SubmitEffectsInOrder == []C7_OrderInv /\ [][C7_ClearStep]_vars

C7_Witness ==
    \E p \in Slots :
        /\ Answered(p) /\ Submitting(p)
        /\ resp[p].code = 200
        /\ effects[p] = SubmitOrder

\* C8: a submission is answered 400 exactly when its title normalizes to
\* nothing, and 409 exactly when the check under the lock finds the
\* normalized title in existing_titles; neither has any effect.
C8_RejectedInv ==
    \A p \in Slots :
        (Answered(p) /\ Submitting(p))
        => /\ resp[p].code = 400 <=> sanitize_input(req[p].title) = ""
           /\ resp[p].code \in {400, 409} => effects[p] = <<>>

C8_RejectedStep ==
    \A p \in Slots :
        /\ (StepOf(p) /\ pc[p] = "s_check")
           => /\ index_lock'.owner = p
              /\ loc'[p].exists
                     <=> sanitize_input(req[p].title) \in title_index.existing_titles
        /\ (StepOf(p) /\ pc[p] = "s_check_unlock")
           => /\ title_index' = title_index
              /\ IF sanitize_input(req[p].title) \in title_index.existing_titles
                 THEN pc'[p] = "done" /\ resp'[p].code = 409
                 ELSE pc'[p] = "s_insert" /\ resp'[p].code = 0
        /\ (StepOf(p) /\ Submitting(p) /\ resp'[p].code \in {400, 409})
           => /\ title_index' = title_index
              /\ cache' = cache
              /\ store' = store
              /\ effects'[p] = <<>>

\* C8: 400 on an empty normalized title, 409 on one already in
\* existing_titles, and no insert, index change or cache clear in either
\* case (both parts above).
C8_RejectedSubmissionHasNoEffect == []C8_RejectedInv /\ [][C8_RejectedStep]_vars

C8_Witness ==
    \E p, q \in Slots :
        /\ Answered(p) /\ Submitting(p) /\ resp[p].code = 400
        /\ Answered(q) /\ Submitting(q) /\ resp[q].code = 409

\* C9: every writer of the index (startup's extend batches, shutdown's
\* clear, a submission's add_title) has had the cache cleared after its
\* write by the time it is through.
C9_EveryIndexWriteClearsCache ==
    /\ life.pc \in {"serving", "stopped"} => "lifespan" \notin pending
    /\ \A p \in Slots : Answered(p) => p \notin pending

\* C10 as stated: at a lexical score of 82 or more the verdict is REJECT
\* with probability 100 - lex_score, similarity lex_score and the lexical
\* reasons.
C10_AsStated ==
    \A p \in Slots :
        (Answered(p) /\ Verifying(p)
         /\ RLeq(Num(LEXICAL_REJECT_THRESHOLD), loc[p].lexical_score))
        => /\ resp[p].verdict.is_rejected
           /\ resp[p].verdict.verification_probability
                  = RSub(Num(100), loc[p].lexical_score)
           /\ resp[p].verdict.similarity_percentage = loc[p].lexical_score
           /\ resp[p].verdict.rejection_reasons = loc[p].lexical_rejections

\* C10: at a lexical score of 82 or more the verdict is REJECT with
\* probability 100 - lex_score and similarity lex_score, each rounded to two
\* decimals, and the lexical reasons, also when a guideline is violated.
C10_LexicalDecidesFirst ==
    \A p \in Slots :
        (Answered(p) /\ Verifying(p)
         /\ RLeq(Num(LEXICAL_REJECT_THRESHOLD), loc[p].lexical_score))
        => /\ resp[p].verdict.is_rejected
           /\ resp[p].verdict.status = "rejected"
           /\ resp[p].verdict.verification_probability
                  = Round2(RSub(Num(100), loc[p].lexical_score))
           /\ resp[p].verdict.similarity_percentage
                  = Round2(loc[p].lexical_score)
           /\ resp[p].verdict.rejection_reasons = loc[p].lexical_rejections
           /\ ~HasReason(resp[p].verdict,
                         "Uses periodicity term to modify an existing title")

C10_Witness ==
    \E p \in Slots :
        /\ Answered(p) /\ Verifying(p)
        /\ RLeq(Num(LEXICAL_REJECT_THRESHOLD), loc[p].lexical_score)
        /\ enforce_guidelines(loc[p].clean_title, title_index, TRUE) # <<>>
        /\ resp[p].verdict.rejection_reasons = loc[p].lexical_rejections


\* What a request computed itself (an answer from the cache computes
\* nothing).
Computed(p) == Answered(p) /\ Verifying(p) /\ loc[p].clean_title # ""

BelowLexicalThreshold(p) ==
    RLess(loc[p].lexical_score, Num(LEXICAL_REJECT_THRESHOLD))

\* C11: when the lexical score is below LEXICAL_REJECT_THRESHOLD and
\* enforce_guidelines returns a reason for the normalized title, the
\* verdict is REJECT with probability 0, similarity 100 and exactly the
\* guideline reasons.
C11_GuidelineInv ==
    \A p \in Slots :
        (Answered(p) /\ Verifying(p) /\ BelowLexicalThreshold(p)
         /\ loc[p].rule_rejections # <<>>)
        => /\ resp[p].verdict.status = "rejected"
           /\ resp[p].verdict.is_rejected
           /\ resp[p].verdict.verification_probability = Num(0)
           /\ resp[p].verdict.similarity_percentage = Num(100)
           /\ resp[p].verdict.rejection_reasons = loc[p].rule_rejections

C11_GuidelineStep ==
    \A p \in Slots :
        (StepOf(p) /\ pc[p] = "v_guidelines")
        => /\ BelowLexicalThreshold(p)
           /\ loc'[p].rule_rejections
                  = enforce_guidelines(sanitize_input(req[p].title),
                                       title_index, TRUE)

C11_GuidelineReject == []C11_GuidelineInv /\ [][C11_GuidelineStep]_vars

C11_Witness ==
    \E p \in Slots :
        /\ Answered(p) /\ Verifying(p) /\ BelowLexicalThreshold(p)
        /\ loc[p].rule_rejections # <<>>
        /\ loc[p].rule_rejections[1].rule
               = "Disallowed prefix creates conflict with existing title"
        /\ resp[p].verdict.similarity_percentage = Num(100)


SemanticStageFailed(p) == loc[p].semantic \in {"embed_failed", "rpc_failed"}

\* C12: when embed or the match_titles RPC raises, the request is still
\* answered with a verdict: the ensemble score is 0, the final similarity is
\* the lexical score (reported rounded to two decimals) and the verdict is
\* the one the lexical score alone gives, here always a success without
\* reasons.
C12_SemanticFailureIsAbsorbed ==
    \A p \in Slots :
        (Answered(p) /\ Verifying(p) /\ SemanticStageFailed(p))
        => /\ resp[p].code = 200
           /\ loc[p].highest_ensemble_score = Num(0)
           /\ resp[p].verdict.similarity_percentage
                  = Round2(loc[p].lexical_score)
           /\ resp[p].verdict.verification_probability
                  = Round2(RSub(Num(100), loc[p].lexical_score))
           /\ resp[p].verdict.rejection_reasons = loc[p].lexical_rejections
           /\ resp[p].verdict.is_rejected
                  <=> RLeq(Num(ENSEMBLE_REJECT_THRESHOLD), loc[p].lexical_score)
           /\ resp[p].verdict.status = "success"

C12_Witness ==
    \E p, q \in Slots :
        /\ Answered(p) /\ Verifying(p) /\ loc[p].semantic = "embed_failed"
        /\ Answered(q) /\ Verifying(q) /\ loc[q].semantic = "rpc_failed"
        /\ resp[p].verdict.status = "success"
        /\ resp[q].verdict.status = "success"
        /\ RLess(Num(0), loc[p].lexical_score)


\* C13 as stated: the similarity a verdict reports is at least the lexical
\* score of the query.
C13_AsStated ==
    \A p \in Slots :
        Computed(p)
        => RLeq(loc[p].lexical_score, resp[p].verdict.similarity_percentage)

\* C13: on every path (lexical, guideline, early-ensemble and final
\* rejection, success) the similarity a verdict reports is at least the
\* lexical score of the query rounded to two decimals.
C13_SimilarityAtLeastRoundedLexical ==
    \A p \in Slots :
        Computed(p)
        => RLeq(Round2(loc[p].lexical_score),
                resp[p].verdict.similarity_percentage)

C13_Witness ==
    \E p, q \in Slots :
        /\ Computed(p) /\ loc[p].semantic = "scored"
        /\ RLess(Num(0), loc[p].lexical_score)
        /\ RLess(loc[p].lexical_score, loc[p].highest_ensemble_score)
        /\ resp[p].verdict.similarity_percentage
               = Round2(loc[p].highest_ensemble_score)
        /\ Computed(q) /\ SemanticStageFailed(q)
        /\ RLess(Num(0), loc[q].lexical_score)
        /\ resp[q].verdict.similarity_percentage = Round2(loc[q].lexical_score)


\* C17: every query for which detect_lexical_conflicts returns a reason,
\* whichever rule it is, and also a fuzzy hit with a score in [80, 82), is
\* rejected by the verification pipeline.
C17_EveryLexicalReasonRejects ==
    \A p \in Slots :
        (Answered(p) /\ Verifying(p) /\ loc[p].lexical_rejections # <<>>)
        => /\ resp[p].verdict.is_rejected
           /\ resp[p].verdict.status = "rejected"

C17_Witness ==
    \E p \in Slots :
        /\ Computed(p)
        /\ HasReason(resp[p].verdict, "Spelling/transliteration variation")
        /\ RLeq(Num(80), loc[p].lexical_score)
        /\ BelowLexicalThreshold(p)
        /\ resp[p].verdict.is_rejected
        /\ resp[p].verdict.feedback
               = "Rejected by lexical scoring without semantic stage."


\* The threads of the service: the lifespan handler and the handler slots.
Threads == Slots \cup {"lifespan"}

\* Thread t is at a call of the store (the startup page read, the insert),
\* of the embedding service or of the vector RPC.
IoOutstanding(t) ==
    IF t = "lifespan" THEN life.pc = "l_fetch"
    ELSE pc[t] \in {"v_embed", "v_rpc", "s_insert"}

HoldsLock(t) == index_lock.owner = t /\ index_lock.depth > 0

\* C20: the index lock is never held while an I/O call is in progress: in
\* every state of the startup, verification, submission and health-probe
\* handlers, a thread with an embedding call, a vector RPC, a store read or
\* a store write outstanding does not hold index_lock.
C20_NoIoUnderLock ==
    \A t \in Threads : IoOutstanding(t) => ~HoldsLock(t)

\* A handler is at its store write while the other one holds the lock for
\* its own index access.
C20_Witness ==
    \E p, q \in Slots :
        /\ p # q
        /\ pc[p] = "s_insert"
        /\ HoldsLock(q)
        /\ pc[q] \in {"v_lexical_unlock", "v_guidelines_unlock", "h_unlock"}

\* The request of slot p is inside cached_verification_logic or has been
\* answered by it (not from the cache).
InPipeline(p) == Verifying(p) /\ pc[p] # "idle"

\* The embedding service or the vector RPC is being called for slot p, or
\* has been.
SemanticInvoked(p) == pc[p] \in {"v_embed", "v_rpc"} \/ loc[p].semantic # ""

EarlyRange(p) ==
    /\ RLeq(Num(ENSEMBLE_REJECT_THRESHOLD), loc[p].lexical_score)
    /\ BelowLexicalThreshold(p)
    /\ loc[p].rule_rejections = <<>>

\* C21 as stated: on the early rejection the similarity is lex_score.
C21_AsStated ==
    \A p \in Slots :
        (Computed(p) /\ EarlyRange(p))
        => resp[p].verdict.similarity_percentage = loc[p].lexical_score

\* C21: the semantic stage is skipped on early rejection: embed and the
\* vector RPC are invoked for a query only if its lexical score is below
\* ENSEMBLE_REJECT_THRESHOLD and enforce_guidelines returned no reasons; with
\* ENSEMBLE_REJECT_THRESHOLD <= lex_score < LEXICAL_REJECT_THRESHOLD and no
\* guideline reasons the verdict is REJECT with similarity lex_score rounded
\* to two decimals, and no external call is made.
C21_SemanticSkippedOnEarlyReject ==
    \A p \in Slots :
        /\ (InPipeline(p) /\ SemanticInvoked(p))
           => /\ RLess(loc[p].lexical_score, Num(ENSEMBLE_REJECT_THRESHOLD))
              /\ loc[p].rule_rejections = <<>>
        /\ (Computed(p) /\ EarlyRange(p))
           => /\ resp[p].verdict.is_rejected
              /\ resp[p].verdict.status = "rejected"
              /\ resp[p].verdict.similarity_percentage
                     = Round2(loc[p].lexical_score)
              /\ ~SemanticInvoked(p)

\* One query is rejected early on a lexical score of 800/11 without a
\* lexical reason, while another one, below the threshold, is at the
\* embedding call.
C21_Witness ==
    \E p, q \in Slots :
        /\ Computed(p) /\ EarlyRange(p)
        /\ loc[p].lexical_score = Rat(800, 11)
        /\ loc[p].lexical_rejections = <<>>
        /\ resp[p].verdict.similarity_percentage = Rat(7273, 100)
        /\ resp[p].verdict.feedback
               = "Rejected by lexical scoring without semantic stage."
        /\ Verifying(q) /\ pc[q] = "v_embed"

\* The index is being built: the lifespan handler is in its startup loop.
Building == life.pc \in {"l_fetch", "l_extend", "l_extend_unlock"}

\* The non-empty normalized forms of the Titles of rows.
NormalizedTitles(rows) == {sanitize_input(rows[i]) : i \in 1..Len(rows)} \ {""}

FirstRows(n) == SubSeq(store, 1, IF n < Len(store) THEN n ELSE Len(store))

\* The startup loop by itself: pages of PageSize rows are read at the
\* offsets 0, PageSize, 2 * PageSize, ... and the titles of the pages read
\* so far are indexed; the lock is held by the lifespan handler only inside
\* the extend of one batch, not at a page fetch; and when the loop has
\* stopped, on the first empty page, existing_titles is the set of
\* non-empty normalized forms of the Titles of the store.
C23_StartupPart ==
    /\ Building
       => /\ life.start % PageSize = 0
          /\ life.start <= Len(store) + PageSize - 1
          /\ title_index.existing_titles
                 = NormalizedTitles(FirstRows(
                       IF life.pc = "l_extend_unlock"
                       THEN life.start + PageSize ELSE life.start))
          /\ HoldsLock("lifespan") <=> life.pc = "l_extend_unlock"
    /\ (life.pc = "serving" /\ started = 0)
       => /\ life.start >= Len(store)
          /\ title_index.existing_titles = NormalizedTitles(store)
          /\ index_lock = Unlocked

\* A health probe can be started by some free handler.
ProbeCanStart == \E p \in Slots : ENABLED StartHealthz(p)

\* C23: the startup index build terminates and is complete: fixed-size
\* pages are fetched at increasing offsets until the first empty page; then
\* existing_titles is the set of non-empty normalized forms of the Titles
\* of the store; the lock is acquired once per batch and released before
\* the next page fetch, so that a health probe running concurrently with
\* the build can observe intermediate counts.
C23_StartupCompleteAndObservable ==
    /\ C23_StartupPart
    /\ Building => ProbeCanStart

\* The submission of slot p has inserted its row into the store.
Inserted(p) == \E i \in 1..Len(effects[p]) : effects[p][i] = "insert"

\* Slots p and q serve two submissions of titles with the same normalized
\* form, which was not in the index when either arrived.
SameNewTitle(p, q) ==
    /\ p # q
    /\ Submitting(p) /\ Submitting(q)
    /\ loc[p].clean_title # ""
    /\ loc[p].clean_title = loc[q].clean_title
    /\ loc[p].clean_title \notin atStart[p].existing \cup atStart[q].existing

AnsweredDegraded(q) ==
    /\ Computed(q)
    /\ SemanticStageFailed(q)
    /\ title_index.existing_titles = atStart[q].existing

\* A verification of the (title, language) of q arrives at slot p.
ArrivesSameKey(p, q) ==
    /\ p # q
    /\ pc[p] = "idle"
    /\ pc'[p] # "idle"
    /\ req'[p].kind = "verify"
    /\ <<req'[p].title, req'[p].language>> = CacheKey(q)

\* C25: a verdict produced while the semantic stage failed (embedding or
\* vector RPC error, ensemble score forced to 0) is not served from the
\* result cache to later requests: a later verification of the same
\* (title, language), with no index write in between, is not answered from
\* the cache but runs the pipeline, and with it the semantic stage, again.
C25_DegradedVerdictNotCached ==
    [][\A p, q \in Slots :
          (AnsweredDegraded(q) /\ ArrivesSameKey(p, q))
          => /\ pc'[p] = "v_lexical"
             /\ resp'[p] = NoResponse]_vars

\* The verdicts the service has given or holds: those of the responses to
\* verifications and those in the result cache.
Verdicts ==
    {resp[p].verdict : p \in {x \in Slots : Answered(x) /\ Verifying(x)}}
        \cup {cache[k] : k \in DOMAIN cache}

ConsistentVerdict(v) ==
    /\ v.status \in {"success", "rejected"}
    /\ v.is_rejected <=> v.status = "rejected"
    /\ v.status = "rejected" => v.rejection_reasons # <<>>
    /\ v.status = "success" => v.rejection_reasons = <<>>

\* The similarity the pipeline decided on for slot p, before rounding.
FinalSimilarity(p) == RMax(loc[p].lexical_score, loc[p].highest_ensemble_score)

\* C26 as stated: every success verdict carries a similarity below
\* ENSEMBLE_REJECT_THRESHOLD.
C26_AsStated ==
    \A v \in Verdicts :
        /\ ConsistentVerdict(v)
        /\ v.status = "success"
           => RLess(v.similarity_percentage, Num(ENSEMBLE_REJECT_THRESHOLD))

\* C26: under the default thresholds every verdict is internally
\* consistent: is_rejected is true exactly when status is 'rejected'; every
\* rejected verdict carries at least one rejection reason, on each
\* rejecting path; every success verdict carries no rejection reason, was
\* decided on a similarity below ENSEMBLE_REJECT_THRESHOLD and reports that
\* similarity rounded to two decimals, which is at most the threshold.
C26_VerdictsAreConsistent ==
    /\ \A v \in Verdicts :
          /\ ConsistentVerdict(v)
          /\ v.status = "success"
             => RLeq(v.similarity_percentage, Num(ENSEMBLE_REJECT_THRESHOLD))
    /\ \A p \in Slots :
          (Computed(p) /\ resp[p].verdict.status = "success")
          => /\ RLess(FinalSimilarity(p), Num(ENSEMBLE_REJECT_THRESHOLD))
             /\ resp[p].verdict.similarity_percentage = Round2(FinalSimilarity(p))

\* One query passes with an ensemble score just below the threshold, which
\* its verdict reports as 70.0, while another one is rejected on the lexical
\* path with the reason of the fuzzy stage.
C26_Witness ==
    \E p, q \in Slots :
        /\ Computed(p)
        /\ resp[p].verdict.status = "success"
        /\ RLess(FinalSimilarity(p), Num(ENSEMBLE_REJECT_THRESHOLD))
        /\ resp[p].verdict.similarity_percentage = Num(ENSEMBLE_REJECT_THRESHOLD)
        /\ Computed(q)
        /\ resp[q].verdict.feedback
               = "Title is too close to an existing title by lexical/phonetic checks."
        /\ HasReason(resp[q].verdict, "Spelling/transliteration variation")
=============================================================================
